---- MODULE Spec2Model ----
(***************************************************************************)
(* Text-to-SQL conversational workflow (Meetraj9/Text-to-sql).             *)
(*                                                                         *)
(* One conversation thread of the Streamlit application: run_workflow      *)
(* starts a turn, the LangGraph stage graph runs its nodes one at a time,  *)
(* and the result is stored back in the session.  Values of Optional[str]  *)
(* fields are strings, with None standing for Python's None; an Optional   *)
(* dictionary is a sequence of length 0 (None) or 1.                       *)
(***************************************************************************)
EXTENDS Naturals, Sequences, FiniteSets, TLC

VARIABLES
    session,      \* st.session_state.workflow_state: <<>> or <<WorkflowState>>
    state,        \* the WorkflowState the graph is working on in this turn
    pc,           \* the node about to run, or "idle" / "END" / "raised"
    cache,        \* IndustryMapper.cache: cache key -> mapping
    turns,        \* number of turns started on the thread
    branch,       \* the run_workflow branch that started the turn
    ran,          \* the nodes that ran in this turn, in order
    validated,    \* this turn's texts on which SQLValidator.validate succeeded
    not_found,    \* this turn: map_industry_node caught IndustryNotFoundError
    llm_sql,      \* this turn: the SQL-synthesis capability returned a text
    ex_query,     \* execute_query: its argument
    ex_pc,        \* execute_query: position
    ex_db,        \* execute_query: statements sent to the database
    v_query,      \* SQLValidator.validate: its argument
    v_result,     \* SQLValidator.validate: <<>> or <<the tuple returned>>
    f_arg,        \* a helper function called on its own: its argument
    f_ret         \* the values it has returned so far, in order

vars == <<session, state, pc, cache, turns, branch, ran, validated, not_found,
          llm_sql, ex_query, ex_pc, ex_db, v_query, v_result, f_arg, f_ret>>

wf_vars == <<session, state, pc, cache, turns, branch, ran, validated,
             not_found, llm_sql>>

ex_vars == <<ex_query, ex_pc, ex_db>>

val_vars == <<v_query, v_result>>

fn_vars == <<f_arg, f_ret>>

(***************************************************************************)
(* Bounds of the model and values of workflow_config.json.                 *)
(***************************************************************************)
\* turns per thread explored
MaxTurns == 2
\* workflow_config.json max_conversation_turns (the code's default is 15)
MaxConversationTurns == 3
\* workflow_config.json conversation_history_limit (the code's default is 10)
ConversationHistoryLimit == 1
\* workflow_config.json max_updates_to_keep (the code's default is 5)
MaxUpdatesToKeep == 1
\* workflow_config.json exclusion_check_turns (the code's default is 5)
ExclusionCheckTurns == 2
\* workflow_config.json max_contextual_questions_before_sql, default
MaxContextual == 1
\* workflow_config.json min_question_length, default
MinQuestionLength == 10

(***************************************************************************)
(* Python values.                                                          *)
(***************************************************************************)
None == "<None>"

Truthy(v) == v # None /\ v # ""

\* str.lower().strip() on the texts of the model
lower_strip(v) ==
    CASE v = "None" -> "none"
      [] v = " " -> ""
      [] v = "Tech" -> "tech"
      [] v = "CEO" -> "ceo"
      [] v = " Director " -> "director"
      [] OTHER -> v

\* str.lower() on the texts of the model
lower(v) ==
    CASE v = "None" -> "none"
      [] v = "Tech" -> "tech"
      [] v = "CEO" -> "ceo"
      [] v = " Director " -> " director "
      [] OTHER -> v

is_empty_value(v) ==
    IF ~Truthy(v) THEN TRUE
    ELSE lower_strip(v) \in {"null", "none", "", "not specified"}

Last(s) == s[Len(s)]

\* truth value of an Optional SQL text: None and "" are false
sql_truthy(q) == q # <<>> /\ q[1] # <<>>

\* s[-n:]
Tail_n(s, n) == IF Len(s) > n THEN SubSeq(s, Len(s) - n + 1, Len(s)) ELSE s

InSeq(x, s) == \E i \in 1..Len(s) : s[i] = x

Fields == <<"geography", "industry", "target_customer_type", "title",
            "employee_size", "square_footage", "sales_volume">>

FieldSet == {Fields[i] : i \in 1..Len(Fields)}

get_empty_extracted_info == [f \in FieldSet |-> None]

\* answers_received is the dictionary question -> answer, kept as the
\* sequence of its <<question, answer>> items in insertion order
ConversationContext ==
    [questions_asked |-> <<>>, answers_received |-> <<>>,
     corrections_made |-> <<>>, update_requests |-> <<>>]

create_initial_state(user_input) ==
    [messages |-> <<user_input>>,
     conversation_history |-> <<>>,
     conversation_context |-> ConversationContext,
     extracted_info |-> get_empty_extracted_info,
     extraction_history |-> <<>>,
     missing_fields |-> <<>>,
     \* Optional[str] of a SQL text: <<>> is None, <<text>> a text
     sql_query |-> <<>>,
     \* Optional[bool]: None, "True" or "False"
     sql_valid |-> None,
     sql_error |-> None,
     sic_context |-> <<>>,
     title_sql_condition |-> None,
     mentioned_fields |-> {},
     workflow_state |-> "extracting",
     needs_human_input |-> FALSE,
     current_question |-> None]

(***************************************************************************)
(* Conversation memory (workflows/memory.py).                              *)
(***************************************************************************)
\* what the user may type; run_workflow receives it stripped
UserInputs == {"", "leads in Texas", "change it, not gyms"}

\* keyword in content.lower(), for the texts of the model
HasUpdateKeyword(content) == content \in {"change it, not gyms"}

HasExclusionKeyword(content) == content \in {"change it, not gyms"}

\* workflow_config.json max_corrections_to_keep (the code's default is 5)
MaxCorrectionsToKeep == 2

update_conversation_memory(conversation_history, role, content, question_asked) ==
    LET new_turn == [role |-> role, content |-> content,
                     question_asked |-> question_asked]
        updated_history == Append(conversation_history, new_turn)
    IN  Tail_n(updated_history, MaxConversationTurns)

Answered(context, q) ==
    \E i \in 1..Len(context.answers_received) :
        context.answers_received[i][1] = q

\* positions of questions_asked with no entry in answers_received
Unanswered(context) ==
    {i \in 1..Len(context.questions_asked) :
        ~Answered(context, context.questions_asked[i])}

Max(S) == CHOOSE x \in S : \A y \in S : y <= x

Min(S) == CHOOSE x \in S : \A y \in S : x <= y

\* the corrections of one turn, in the order of the dictionary's items
Corrections(extracted_info, previous_extracted_info) ==
    LET changed(f) ==
            /\ Truthy(previous_extracted_info[f])
            /\ Truthy(extracted_info[f])
            /\ previous_extracted_info[f] # extracted_info[f]
            /\ ~is_empty_value(previous_extracted_info[f])
            /\ ~is_empty_value(extracted_info[f])
        idx == SelectSeq(<<1, 2, 3, 4, 5, 6, 7>>, LAMBDA i : changed(Fields[i]))
    IN  [i \in 1..Len(idx) |->
            [field |-> Fields[idx[i]],
             old_value |-> previous_extracted_info[Fields[idx[i]]],
             new_value |-> extracted_info[Fields[idx[i]]]]]

\* a variant in which a user turn answers no question
update_conversation_context_no_answer(context, turn, extracted_info, previous_extracted_info) ==
    LET c1 == IF turn.role = "assistant" /\ Truthy(turn.question_asked)
                 /\ ~InSeq(turn.question_asked, context.questions_asked)
              THEN [context EXCEPT !.questions_asked =
                                       Append(@, turn.question_asked)]
              ELSE context
        c3 == IF turn.role = "user"
              THEN [c1 EXCEPT !.corrections_made =
                       @ \o Corrections(extracted_info, previous_extracted_info)]
              ELSE c1
    IN  IF turn.role = "user" /\ HasUpdateKeyword(turn.content)
        THEN [c3 EXCEPT !.update_requests = Append(@, turn.content)]
        ELSE c3

\* a variant that stores the pending question's text in place of the answer
update_conversation_context_question_as_answer(context, turn, extracted_info, previous_extracted_info) ==
    LET c1 == IF turn.role = "assistant" /\ Truthy(turn.question_asked)
                 /\ ~InSeq(turn.question_asked, context.questions_asked)
              THEN [context EXCEPT !.questions_asked =
                                       Append(@, turn.question_asked)]
              ELSE context
        c2 == IF turn.role = "user" /\ Unanswered(c1) # {}
              THEN [c1 EXCEPT !.answers_received =
                       Append(@, <<c1.questions_asked[Max(Unanswered(c1))],
                                   turn.question_asked>>)]
              ELSE c1
        c3 == IF turn.role = "user"
              THEN [c2 EXCEPT !.corrections_made =
                       @ \o Corrections(extracted_info, previous_extracted_info)]
              ELSE c2
    IN  IF turn.role = "user" /\ HasUpdateKeyword(turn.content)
        THEN [c3 EXCEPT !.update_requests = Append(@, turn.content)]
        ELSE c3

update_conversation_context(context, turn, extracted_info, previous_extracted_info) ==
    LET c1 == IF turn.role = "assistant" /\ Truthy(turn.question_asked)
                 /\ ~InSeq(turn.question_asked, context.questions_asked)
              THEN [context EXCEPT !.questions_asked =
                                       Append(@, turn.question_asked)]
              ELSE context
        \* reversed(questions_asked): the most recent unanswered question
        c2 == IF turn.role = "user" /\ Unanswered(c1) # {}
              THEN [c1 EXCEPT !.answers_received =
                       Append(@, <<c1.questions_asked[Max(Unanswered(c1))],
                                   turn.content>>)]
              ELSE c1
        c3 == IF turn.role = "user"
              THEN [c2 EXCEPT !.corrections_made =
                       @ \o Corrections(extracted_info, previous_extracted_info)]
              ELSE c2
    IN  IF turn.role = "user" /\ HasUpdateKeyword(turn.content)
        THEN [c3 EXCEPT !.update_requests = Append(@, turn.content)]
        ELSE c3

prune_old_context(context) ==
    LET qs == Tail_n(context.questions_asked, ConversationHistoryLimit)
        ans == IF Len(context.questions_asked) > ConversationHistoryLimit
               THEN SelectSeq(context.answers_received,
                              LAMBDA qa : InSeq(qa[1], qs))
               ELSE context.answers_received
    IN  [questions_asked |-> qs,
         answers_received |-> ans,
         corrections_made |-> Tail_n(context.corrections_made, MaxCorrectionsToKeep),
         update_requests |-> Tail_n(context.update_requests, MaxUpdatesToKeep)]

track_question_answer(context, question) ==
    IF InSeq(question, context.questions_asked) THEN context
    ELSE [context EXCEPT !.questions_asked = Append(@, question)]

(***************************************************************************)
(* run_workflow (app.py): the three ways a turn starts.                    *)
(***************************************************************************)
NewTurnGhosts ==
    /\ ran' = <<>>
    /\ validated' = {}
    /\ not_found' = FALSE
    /\ llm_sql' = FALSE

run_workflow ==
    /\ pc = "idle"
    /\ turns < MaxTurns
    /\ \E user_input \in UserInputs :
        LET has_existing_state == session # <<>>
            is_resuming_from_interrupt ==
                has_existing_state /\ session[1].needs_human_input
            has_sql_query == has_existing_state /\ session[1].sql_query # <<>>
            is_update_request == has_sql_query /\ ~is_resuming_from_interrupt
        IN  IF is_resuming_from_interrupt
            THEN \* the session's own dictionary is changed and passed on
                 LET current_state ==
                        [session[1] EXCEPT !.messages = Append(@, user_input),
                                           !.needs_human_input = FALSE]
                 IN  /\ state' = current_state
                     /\ session' = <<current_state>>
                     /\ branch' = "resume"
            ELSE IF is_update_request
            THEN \* a deep copy of the session's state
                 /\ state' = [session[1] EXCEPT
                                  !.messages = Append(@, user_input),
                                  !.needs_human_input = FALSE,
                                  !.current_question = None,
                                  !.workflow_state = "updating",
                                  !.missing_fields = <<>>]
                 /\ session' = session
                 /\ branch' = "update"
            ELSE /\ state' = create_initial_state(user_input)
                 /\ session' = session
                 /\ branch' = "new"
    /\ pc' = "conversation_manager"
    /\ turns' = turns + 1
    /\ NewTurnGhosts
    /\ UNCHANGED <<cache, ex_vars,
                   val_vars, fn_vars>>

(***************************************************************************)
(* conversation_manager_node (workflows/nodes/conversation.py).            *)
(***************************************************************************)
conversation_manager_node ==
    /\ pc = "conversation_manager"
    /\ LET latest_message == Last(state.messages)
           history == update_conversation_memory(
                          state.conversation_history, "user", latest_message,
                          state.current_question)
           latest_turn == Last(history)
           context == update_conversation_context(
                          state.conversation_context, latest_turn,
                          state.extracted_info, state.extracted_info)
       IN  state' = [state EXCEPT
                        !.conversation_history = history,
                        !.conversation_context = prune_old_context(context)]
    /\ pc' = "extract_info"
    /\ ran' = Append(ran, "conversation_manager")
    /\ UNCHANGED <<session, cache, turns, branch, validated, not_found,
                   llm_sql, ex_vars,
                   val_vars, fn_vars>>

(***************************************************************************)
(* The extraction capability: ExtractedInfoWithMentioned                   *)
(* (workflows/models.py).                                                  *)
(***************************************************************************)
\* texts the capability may return for a field
FieldValues(f) ==
    CASE f = "geography" -> {"Texas"}
      [] f = "industry" -> {"cleaning", "tech"}
      [] f = "target_customer_type" -> {"startups"}
      [] f = "title" -> {"owner", "intern"}
      [] f = "employee_size" -> {"50"}
      [] f = "square_footage" -> {"10000"}
      [] f = "sales_volume" -> {"50M"}

\* what a reply says of a field it addresses: <<value, mentioned flag>>
\*   value        the field is given a value and flagged as mentioned
\*   unmentioned  a value is returned without the flag
\*   cleared      None with the flag: the user removed the filter
\*   none_text    the text "none" with the flag
\*   several      a comma-separated value with the flag
FieldOption(kind, v) ==
    CASE kind = "value" -> <<v, TRUE>>
      [] kind = "several" -> <<"tech, law", TRUE>>
      [] kind = "unmentioned" -> <<v, FALSE>>
      [] kind = "cleared" -> <<None, TRUE>>
      [] kind = "none_text" -> <<"none", TRUE>>

\* the fields a reply addresses, each with what the reply says of it
ReplyShapes ==
    {<<>>,
     [geography |-> "value", industry |-> "value"],
     [title |-> "value", employee_size |-> "value"],
     [title |-> "cleared", employee_size |-> "cleared"],
     [geography |-> "value", industry |-> "value",
      title |-> "value", employee_size |-> "value"],
     [geography |-> "cleared", industry |-> "value",
      title |-> "value", employee_size |-> "cleared"],
     [geography |-> "cleared", industry |-> "several",
      title |-> "cleared", employee_size |-> "cleared"],
     [title |-> "value"],
     [title |-> "unmentioned"],
     [industry |-> "value"],
     [industry |-> "none_text"],
     [target_customer_type |-> "value"],
     [square_footage |-> "value", sales_volume |-> "unmentioned"]}

\* the value a reply gives a field: the industry and the title vary
FieldValue(f, industry, title) ==
    CASE f = "industry" -> industry
      [] f = "title" -> title
      [] OTHER -> CHOOSE v \in FieldValues(f) : TRUE

\* a reply: the fields it does not address are None with the flag False
Reply(shape, industry, title) ==
    LET A == DOMAIN shape
        option(f) == FieldOption(shape[f], FieldValue(f, industry, title))
    IN  [value |-> [f \in FieldSet |-> IF f \in A THEN option(f)[1] ELSE None],
         mentioned |-> {f \in A : option(f)[2]}]

ExtractionReplies ==
    {Reply(shape, industry, title) :
        shape \in ReplyShapes,
        industry \in FieldValues("industry"), title \in FieldValues("title")}

(***************************************************************************)
(* extract_info_node (workflows/nodes/extraction.py) and the edge          *)
(* route_after_extraction (workflows/edges.py).                            *)
(***************************************************************************)
route_after_extraction(st) ==
    IF sql_truthy(st.sql_query) THEN "handle_update" ELSE "validate_completeness"

\* a variant that also applies the values of fields not mentioned
merge_update_any_value(existing, extracted) ==
    [f \in FieldSet |->
        IF f \in extracted.mentioned
        THEN IF Truthy(extracted.value[f]) /\ ~is_empty_value(extracted.value[f])
             THEN extracted.value[f]
             ELSE IF extracted.value[f] = None THEN None
             ELSE existing[f]
        ELSE IF Truthy(extracted.value[f]) THEN extracted.value[f]
        ELSE existing[f]]

\* update request: only the mentioned fields are applied
merge_update(existing, extracted) ==
    [f \in FieldSet |->
        IF f \in extracted.mentioned
        THEN IF Truthy(extracted.value[f]) /\ ~is_empty_value(extracted.value[f])
             THEN extracted.value[f]
             ELSE IF extracted.value[f] = None THEN None
             ELSE existing[f]
        ELSE existing[f]]

\* a variant in which a mentioned field is only given a value, never cleared
merge_new_no_clearing(existing, extracted) ==
    [f \in FieldSet |->
        IF Truthy(extracted.value[f]) /\ ~is_empty_value(extracted.value[f])
        THEN extracted.value[f]
        ELSE existing[f]]

\* new request: mentioned fields, and unmentioned fields with a value
merge_new(existing, extracted) ==
    [f \in FieldSet |->
        IF f \in extracted.mentioned THEN extracted.value[f]
        ELSE IF Truthy(extracted.value[f]) /\ ~is_empty_value(extracted.value[f])
        THEN extracted.value[f]
        ELSE existing[f]]

\* the state after a reply of the capability
extract_apply(st, extracted) ==
    LET is_update_request == st.sql_query # <<>>
    IN  [st EXCEPT
            \* each entry is its "extracted" dictionary: the input and the
            \* update flag of an entry are never read
            !.extraction_history = Append(@, extracted.value),
            !.mentioned_fields = extracted.mentioned,
            !.extracted_info =
                IF is_update_request THEN merge_update(@, extracted)
                ELSE merge_new(@, extracted),
            !.workflow_state = "extracting"]

extract_info_node ==
    /\ pc = "extract_info"
    /\ \/ \* empty user input: extraction is skipped
          /\ ~Truthy(Last(state.messages))
          /\ state' = state
       \/ \* the capability replies
          /\ Truthy(Last(state.messages))
          /\ \E extracted \in ExtractionReplies :
                state' = extract_apply(state, extracted)
       \/ \* the capability fails: the fallback to the empty record is taken
          \* only if extracted_info is None or an empty dictionary
          /\ Truthy(Last(state.messages))
          /\ state' = IF DOMAIN state.extracted_info = {}
                       THEN [state EXCEPT !.extracted_info = get_empty_extracted_info]
                       ELSE state
    /\ pc' = route_after_extraction(state')
    /\ ran' = Append(ran, "extract_info")
    /\ UNCHANGED <<session, cache, turns, branch, validated, not_found,
                   llm_sql, ex_vars,
                   val_vars, fn_vars>>

(***************************************************************************)
(* validate_completeness_node (workflows/nodes/extraction.py) and the      *)
(* edge should_clarify (workflows/edges.py).                               *)
(***************************************************************************)
\* any(keyword in industry.lower() for keyword in [...]), on the model's texts
requires_sqft(industry) == lower_strip(industry) \in {"cleaning"}

\* a variant that asks for the required fields of new requests only
compute_missing_fields_required_new_only(st) ==
    LET info == st.extracted_info
        mentioned == st.mentioned_fields
        is_update_request == st.sql_query # <<>>
        cleared(f) == f \in mentioned /\ info[f] = None
        miss(f) == ~cleared(f) /\ is_empty_value(info[f])
        required == IF is_update_request THEN <<>>
                    ELSE SelectSeq(<<"geography", "industry">>, miss)
        recommended == IF is_update_request THEN <<>>
                       ELSE SelectSeq(<<"title", "employee_size">>, miss)
        conditional ==
            IF /\ ~is_empty_value(info["industry"])
               /\ requires_sqft(info["industry"])
               /\ miss("square_footage")
               /\ ~is_update_request
            THEN <<"square_footage">> ELSE <<>>
    IN  required \o recommended \o conditional

\* a variant that asks for the recommended fields of update requests too
compute_missing_fields_recommended_always(st) ==
    LET info == st.extracted_info
        mentioned == st.mentioned_fields
        is_update_request == st.sql_query # <<>>
        cleared(f) == f \in mentioned /\ info[f] = None
        miss(f) == ~cleared(f) /\ is_empty_value(info[f])
        required == SelectSeq(<<"geography", "industry">>, miss)
        recommended == SelectSeq(<<"title", "employee_size">>, miss)
        conditional ==
            IF /\ ~is_empty_value(info["industry"])
               /\ requires_sqft(info["industry"])
               /\ miss("square_footage")
               /\ ~is_update_request
            THEN <<"square_footage">> ELSE <<>>
    IN  required \o recommended \o conditional

\* a variant that asks for the square footage of update requests too
compute_missing_fields_sqft_on_update(st) ==
    LET info == st.extracted_info
        mentioned == st.mentioned_fields
        is_update_request == st.sql_query # <<>>
        cleared(f) == f \in mentioned /\ info[f] = None
        miss(f) == ~cleared(f) /\ is_empty_value(info[f])
        required == SelectSeq(<<"geography", "industry">>, miss)
        recommended == IF is_update_request THEN <<>>
                       ELSE SelectSeq(<<"title", "employee_size">>, miss)
        conditional ==
            IF /\ ~is_empty_value(info["industry"])
               /\ requires_sqft(info["industry"])
               /\ miss("square_footage")
            THEN <<"square_footage">> ELSE <<>>
    IN  required \o recommended \o conditional

compute_missing_fields(st) ==
    LET info == st.extracted_info
        mentioned == st.mentioned_fields
        is_update_request == st.sql_query # <<>>
        cleared(f) == f \in mentioned /\ info[f] = None
        miss(f) == ~cleared(f) /\ is_empty_value(info[f])
        required == SelectSeq(<<"geography", "industry">>, miss)
        recommended == IF is_update_request THEN <<>>
                       ELSE SelectSeq(<<"title", "employee_size">>, miss)
        conditional ==
            IF /\ ~is_empty_value(info["industry"])
               /\ requires_sqft(info["industry"])
               /\ miss("square_footage")
               /\ ~is_update_request
            THEN <<"square_footage">> ELSE <<>>
    IN  required \o recommended \o conditional

\* a variant without the contextual question
should_clarify_no_contextual(st) ==
    IF st.missing_fields # <<>> THEN "clarify" ELSE "generate"

should_clarify(st) ==
    LET missing_fields == st.missing_fields
        required_missing ==
            SelectSeq(missing_fields, LAMBDA f : f \in {"geography", "industry"})
        question_count == Len(st.conversation_context.questions_asked)
    IN  IF required_missing # <<>> THEN "clarify"
        ELSE IF missing_fields # <<>> THEN "clarify"
        ELSE IF /\ Truthy(st.extracted_info["geography"])
                /\ Truthy(st.extracted_info["industry"])
                /\ question_count < MaxContextual
        THEN "clarify"
        ELSE "generate"

validate_completeness_node ==
    /\ pc = "validate_completeness"
    /\ state' = [state EXCEPT !.missing_fields = compute_missing_fields(state)]
    /\ pc' = IF should_clarify(state') = "clarify"
             THEN "request_clarification" ELSE "map_industry"
    /\ ran' = Append(ran, "validate_completeness")
    /\ UNCHANGED <<session, cache, turns, branch, validated, not_found,
                   llm_sql, ex_vars,
                   val_vars, fn_vars>>

(***************************************************************************)
(* handle_update_node (workflows/nodes/update.py).                         *)
(***************************************************************************)
handle_update_node ==
    /\ pc = "handle_update"
    /\ state' = [state EXCEPT !.sql_query = <<>>,
                              !.sql_valid = None,
                              !.sql_error = None]
    /\ pc' = "map_industry"
    /\ ran' = Append(ran, "handle_update")
    /\ UNCHANGED <<session, cache, turns, branch, validated, not_found,
                   llm_sql, ex_vars,
                   val_vars, fn_vars>>

(***************************************************************************)
(* request_clarification_node (workflows/nodes/clarification.py).          *)
(***************************************************************************)
\* texts the capability may return as its question
QuestionTexts == {"  Size?    ", " Which one? ", "Which title do you target?"}

str_strip(q) ==
    CASE q = "  Size?    " -> "Size?"
      [] q = " Which one? " -> "Which one?"
      [] OTHER -> q

str_len(q) ==
    CASE q = "Size?" -> 5
      [] q = "Which one?" -> 10
      [] q = "Which title do you target?" -> 26
      [] q = "  Size?    " -> 11
      [] q = " Which one? " -> 12

\* QuestionResponse after its validator: needs_clarification without a
\* question is a validation error, a question without it is dropped
QuestionReplies ==
    {[needs_clarification |-> FALSE, question |-> None]}
        \cup [needs_clarification : {TRUE}, question : QuestionTexts]

\* whether the node calls the capability at all
clarification_eligible(st) ==
    LET missing_fields == st.missing_fields
        info == st.extracted_info
        question_count == Len(st.conversation_context.questions_asked)
        sql_exists == st.sql_query # <<>>
        sql_valid == st.sql_valid = "True"
        should_ask_contextual ==
            IF sql_exists /\ sql_valid THEN TRUE
            ELSE /\ missing_fields = <<>> \/ missing_fields = <<"title">>
                 /\ Truthy(info["geography"]) /\ Truthy(info["industry"])
                 /\ ~is_empty_value(info["geography"])
                 /\ ~is_empty_value(info["industry"])
                 /\ question_count < MaxContextual
    IN  ~(missing_fields = <<>> /\ ~should_ask_contextual)

no_question(st) ==
    [st EXCEPT !.needs_human_input = FALSE, !.current_question = None]

\* a variant that leaves the suspend flag as it is
ask_question_unflagged(st, text) ==
    LET question == str_strip(text)
    IN  [st EXCEPT
            !.current_question = question,
            !.workflow_state = "clarifying",
            !.conversation_history =
                update_conversation_memory(@, "assistant", question, question),
            !.conversation_context = track_question_answer(@, question)]

ask_question(st, text) ==
    LET question == str_strip(text)
    IN  [st EXCEPT
            !.current_question = question,
            !.needs_human_input = TRUE,
            !.workflow_state = "clarifying",
            !.conversation_history =
                update_conversation_memory(@, "assistant", question, question),
            !.conversation_context = track_question_answer(@, question)]

request_clarification_node ==
    /\ pc = "request_clarification"
    /\ \/ \* nothing to ask
          /\ ~clarification_eligible(state)
          /\ state' = no_question(state)
       \/ \* the capability replies
          /\ clarification_eligible(state)
          /\ \E response \in QuestionReplies :
                state' =
                    IF ~response.needs_clarification THEN no_question(state)
                    ELSE IF \/ ~Truthy(response.question)
                            \/ str_len(str_strip(response.question)) < MinQuestionLength
                    THEN no_question(state)
                    ELSE ask_question(state, response.question)
       \/ \* the capability call or the reply's validation fails
          /\ clarification_eligible(state)
          /\ state' = no_question(state)
    /\ pc' = "END"
    /\ ran' = Append(ran, "request_clarification")
    /\ UNCHANGED <<session, cache, turns, branch, validated, not_found,
                   llm_sql, ex_vars,
                   val_vars, fn_vars>>

(***************************************************************************)
(* SQL texts.  A text is the sequence of its lexemes; the string it stands *)
(* for is the lexemes joined by single blanks ("\n" is a line break).      *)
(***************************************************************************)
\* str.upper() of a lexeme
Upper(x) ==
    CASE x = "select" -> "SELECT"
      [] x = "delete" -> "DELETE"
      [] x = "drop" -> "DROP"
      [] x = "with" -> "WITH"
      [] x = "union" -> "UNION"
      [] x = "or" -> "OR"
      [] x = "exec(" -> "EXEC("
      [] x = "xp_" -> "XP_"
      [] x = "sp_" -> "SP_"
      [] x = "x" -> "X"
      [] OTHER -> x

UpperText(text) == [i \in 1..Len(text) |-> Upper(text[i])]

\* the lexemes that are white space only: a line break, and the empty
\* lexeme a removed comment leaves between its two blanks
Blank == {"\n", ""}

\* str.strip(): white space at both ends goes (blanks only separate lexemes)
RECURSIVE lstrip(_)
lstrip(text) ==
    IF text # <<>> /\ Head(text) \in Blank THEN lstrip(Tail(text)) ELSE text

RECURSIVE rstrip(_)
rstrip(text) ==
    IF text # <<>> /\ Last(text) \in Blank
    THEN rstrip(SubSeq(text, 1, Len(text) - 1)) ELSE text

strip(text) == rstrip(lstrip(text))

\* str.rstrip(';'): it stops at the blank before the last lexeme, so one
\* ";" goes at most
rstrip_semicolons(text) ==
    IF text # <<>> /\ Last(text) = ";"
    THEN SubSeq(text, 1, Len(text) - 1) ELSE text

Count(text, x) == Cardinality({i \in 1..Len(text) : text[i] = x})

\* pattern in text
Contains(text, pattern) ==
    \E i \in 0..(Len(text) - Len(pattern)) :
        \A j \in 1..Len(pattern) : text[i + j] = pattern[j]

\* text.startswith(word), for a keyword and the lexemes of the model
StartsWithWord(text, word) == text # <<>> /\ Head(text) = word

(***************************************************************************)
(* SQLInjectionValidator (utils/text_to_sql/sql_injection_validator.py).   *)
(***************************************************************************)
\* the "--" comments of every line: a "--" outside a quoted string cuts the
\* line there, and the line is then right-stripped
RECURSIVE remove_line_comments(_, _, _, _)
remove_line_comments(text, in_string, in_comment, acc) ==
    IF text = <<>> THEN acc
    ELSE LET char == Head(text)
             rest == Tail(text)
         IN  IF char = "\n"
             THEN remove_line_comments(rest, FALSE, FALSE, Append(acc, char))
             ELSE IF in_comment
             THEN remove_line_comments(rest, in_string, TRUE, acc)
             ELSE IF char = "'"
             THEN remove_line_comments(rest, ~in_string, FALSE, Append(acc, char))
             ELSE IF ~in_string /\ char = "--"
             THEN remove_line_comments(rest, in_string, TRUE, acc)
             ELSE remove_line_comments(rest, in_string, FALSE, Append(acc, char))

\* re.sub(r'/\*.*?\*/', '', text, flags=re.DOTALL): the blanks on both sides
\* of the comment stay, with nothing between them
RECURSIVE remove_block_comments(_)
remove_block_comments(text) ==
    IF text = <<>> THEN <<>>
    ELSE IF Head(text) = "/*" /\ \E j \in 2..Len(text) : text[j] = "*/"
    THEN LET close == Min({j \in 2..Len(text) : text[j] = "*/"})
         IN  <<"">> \o remove_block_comments(SubSeq(text, close + 1, Len(text)))
    ELSE <<Head(text)>> \o remove_block_comments(Tail(text))

_remove_comments(query) ==
    remove_block_comments(remove_line_comments(query, FALSE, FALSE, <<>>))

\* the message for a text seen as n statements
MsgMultiple(n) ==
    "Multiple SQL statements detected (" \o ToString(n)
        \o " found). Only single SELECT queries are allowed."

check_multiple_statements(query) ==
    LET query_cleaned == _remove_comments(query)
        query_stripped == strip(rstrip_semicolons(strip(query_cleaned)))
        semicolon_count == Count(query_stripped, ";")
    IN  IF semicolon_count > 0
        THEN [ok |-> FALSE, msg |-> MsgMultiple(semicolon_count + 1)]
        ELSE [ok |-> TRUE, msg |-> ""]

\* the patterns that the lexemes of the model can spell, in the list's order
INJECTION_PATTERNS ==
    <<<<";", "DROP">>, <<";", "DELETE">>, <<";", "UPDATE">>,
      <<";", "TRUNCATE">>, <<"OR", "1=1">>, <<"EXEC(">>, <<"xp_">>,
      <<"sp_">>>>

DANGEROUS_STATEMENT_PATTERNS ==
    <<<<"DELETE", "FROM">>, <<"DROP", "TABLE">>, <<"TRUNCATE", "TABLE">>>>

MsgInjection(pattern) ==
    CASE pattern = <<";", "DROP">> -> "Potential SQL injection detected: ; DROP"
      [] pattern = <<";", "DELETE">> -> "Potential SQL injection detected: ; DELETE"
      [] pattern = <<";", "UPDATE">> -> "Potential SQL injection detected: ; UPDATE"
      [] pattern = <<";", "TRUNCATE">> -> "Potential SQL injection detected: ; TRUNCATE"
      [] pattern = <<"OR", "1=1">> -> "Potential SQL injection detected: OR 1=1"
      [] pattern = <<"EXEC(">> -> "Potential SQL injection detected: EXEC("
      [] pattern = <<"xp_">> -> "Potential SQL injection detected: xp_"
      [] pattern = <<"sp_">> -> "Potential SQL injection detected: sp_"

MsgDangerous(word) ==
    CASE word = "DROP" -> "Dangerous operation detected: DROP"
      [] word = "DELETE" -> "Dangerous operation detected: DELETE"
      [] word = "UPDATE" -> "Dangerous operation detected: UPDATE"
      [] word = "TRUNCATE" -> "Dangerous operation detected: TRUNCATE"

\* the loop over INJECTION_PATTERNS from the i-th pattern on: <<>> when none
\* is found, else the message.  A text with UNION SELECT goes on to the
\* next pattern when a SELECT stands before the first UNION and one after
RECURSIVE scan_injection_patterns(_, _)
scan_injection_patterns(query_upper, i) ==
    IF i > Len(INJECTION_PATTERNS) THEN <<>>
    ELSE LET pattern == INJECTION_PATTERNS[i]
             union_pos == Min({j \in 1..Len(query_upper) :
                                  query_upper[j] = "UNION"})
             select_before == Count(SubSeq(query_upper, 1, union_pos - 1),
                                    "SELECT")
             select_after == Count(SubSeq(query_upper, union_pos,
                                          Len(query_upper)), "SELECT")
         IN  IF ~Contains(query_upper, pattern)
             THEN scan_injection_patterns(query_upper, i + 1)
             ELSE IF pattern = <<"UNION", "SELECT">>
             THEN IF select_before >= 1 /\ select_after >= 1
                  THEN scan_injection_patterns(query_upper, i + 1)
                  ELSE <<"Potential SQL injection detected: UNION SELECT">>
             ELSE <<MsgInjection(pattern)>>

check_injection_patterns(query) ==
    LET query_upper == UpperText(_remove_comments(query))
        found == scan_injection_patterns(query_upper, 1)
        bad == {i \in 1..Len(DANGEROUS_STATEMENT_PATTERNS) :
                    Contains(query_upper, DANGEROUS_STATEMENT_PATTERNS[i])}
    IN  IF found # <<>> THEN [ok |-> FALSE, msg |-> found[1]]
        ELSE IF bad # {}
        THEN [ok |-> FALSE,
              msg |-> MsgDangerous(DANGEROUS_STATEMENT_PATTERNS[Min(bad)][1])]
        ELSE [ok |-> TRUE, msg |-> ""]

(***************************************************************************)
(* SQLValidator (utils/text_to_sql/sql_validator.py), with sqlparse's      *)
(* lexer and statement splitter as far as the validator reads them.        *)
(***************************************************************************)
\* sqlparse: which lexemes are code, which lie in a comment or a string
RECURSIVE lex_modes(_, _, _)
lex_modes(text, mode, acc) ==
    IF text = <<>> THEN acc
    ELSE LET x == Head(text)
             rest == Tail(text)
         IN  CASE mode = "line" ->
                    lex_modes(rest, IF x = "\n" THEN "code" ELSE "line",
                              Append(acc, "Comment.Single"))
               [] mode = "block" ->
                    lex_modes(rest, IF x = "*/" THEN "code" ELSE "block",
                              Append(acc, "Comment.Multiline"))
               [] mode = "string" ->
                    lex_modes(rest, IF x = "'" THEN "code" ELSE "string",
                              Append(acc, "string"))
               [] OTHER ->
                    IF x = "--"
                    THEN lex_modes(rest, "line", Append(acc, "Comment.Single"))
                    ELSE IF x = "/*" /\ InSeq("*/", rest)
                    THEN lex_modes(rest, "block",
                                   Append(acc, "Comment.Multiline"))
                    ELSE IF x = "'" /\ InSeq("'", rest)
                    THEN lex_modes(rest, "string", Append(acc, "string"))
                    ELSE lex_modes(rest, "code", Append(acc, "code"))

\* sqlparse's token type of a lexeme that is code
ttype(x) ==
    CASE Upper(x) \in {"SELECT", "DELETE", "UPDATE"} -> "DML"
      [] Upper(x) \in {"DROP"} -> "DDL"
      [] Upper(x) \in {"WITH"} -> "CTE"
      [] Upper(x) \in {"TRUNCATE", "FROM", "TABLE", "UNION", "OR"} -> "Keyword"
      [] Upper(x) \in {";"} -> "Punctuation"
      [] x = "\n" -> "Newline"
      [] OTHER -> "Name"

\* a statement's tokens: [value, ttype] of its lexemes, in order
Tokens(text, modes) ==
    [i \in 1..Len(text) |->
        [value |-> text[i],
         ttype |-> IF modes[i] = "code" THEN ttype(text[i]) ELSE modes[i]]]

\* sqlparse.parse (StatementSplitter): a ";" that is code ends a statement,
\* which still takes the one-line comments that follow it; any other token
\* starts the next statement.  What is left at the end is a statement
\* unless it is white space only
RECURSIVE split_statements(_, _, _, _)
split_statements(tokens, current, consume_ws, acc) ==
    IF tokens = <<>>
    THEN IF \A i \in 1..Len(current) : current[i].ttype = "Newline"
         THEN acc ELSE Append(acc, current)
    ELSE LET t == Head(tokens)
             ended == consume_ws /\ t.ttype # "Comment.Single"
             statement == IF ended THEN <<t>> ELSE Append(current, t)
             finished == IF ended THEN Append(acc, current) ELSE acc
         IN  split_statements(Tail(tokens), statement,
                              \/ t.ttype = "Punctuation" /\ t.value = ";"
                              \/ consume_ws /\ ~ended,
                              finished)

sqlparse_parse(query) ==
    split_statements(Tokens(query, lex_modes(query, "code", <<>>)),
                     <<>>, FALSE, <<>>)

dangerous_keywords == {"DROP", "DELETE", "UPDATE", "TRUNCATE"}

MsgFound(word) ==
    CASE word = "DELETE" -> "Only SELECT queries are allowed. Found: DELETE"
      [] word = "UPDATE" -> "Only SELECT queries are allowed. Found: UPDATE"
      [] OTHER -> "Only SELECT queries are allowed. Found"

\* 'SELECT' in text, for the lexemes of the model
ContainsSelect(text) == \E i \in 1..Len(text) : Upper(text[i]) = "SELECT"

\* a variant that does not look at the first DML token
_validate_statement_any_dml(statement) ==
    LET text == [i \in 1..Len(statement) |-> statement[i].value]
        statement_normalized == strip(UpperText(text))
        keywords == {i \in 1..Len(statement) :
                        /\ statement[i].ttype = "Keyword"
                        /\ Upper(statement[i].value) \in dangerous_keywords}
        injection == check_injection_patterns(text)
    IN  IF keywords # {}
        THEN [ok |-> FALSE,
              msg |-> MsgDangerous(Upper(statement[Min(keywords)].value))]
        ELSE IF /\ StartsWithWord(statement_normalized, "WITH")
                /\ ~ContainsSelect(statement_normalized)
        THEN [ok |-> FALSE,
              msg |-> "WITH clause must be followed by a SELECT statement"]
        ELSE IF /\ ~StartsWithWord(statement_normalized, "WITH")
                /\ ~StartsWithWord(statement_normalized, "SELECT")
        THEN [ok |-> FALSE, msg |-> "Query must contain a SELECT statement"]
        ELSE IF ~injection.ok THEN injection
        ELSE [ok |-> TRUE, msg |-> ""]

_validate_statement(statement) ==
    LET text == [i \in 1..Len(statement) |-> statement[i].value]
        statement_normalized == strip(UpperText(text))
        dml == {i \in 1..Len(statement) : statement[i].ttype = "DML"}
        first_dml_token == Upper(statement[Min(dml)].value)
        keywords == {i \in 1..Len(statement) :
                        /\ statement[i].ttype = "Keyword"
                        /\ Upper(statement[i].value) \in dangerous_keywords}
        injection == check_injection_patterns(text)
    IN  IF dml # {} /\ first_dml_token # "SELECT"
        THEN [ok |-> FALSE, msg |-> MsgFound(first_dml_token)]
        ELSE IF keywords # {}
        THEN [ok |-> FALSE,
              msg |-> MsgDangerous(Upper(statement[Min(keywords)].value))]
        ELSE IF /\ StartsWithWord(statement_normalized, "WITH")
                /\ ~ContainsSelect(statement_normalized)
        THEN [ok |-> FALSE,
              msg |-> "WITH clause must be followed by a SELECT statement"]
        ELSE IF /\ ~StartsWithWord(statement_normalized, "WITH")
                /\ ~StartsWithWord(statement_normalized, "SELECT")
        THEN [ok |-> FALSE, msg |-> "Query must contain a SELECT statement"]
        ELSE IF ~injection.ok THEN injection
        ELSE [ok |-> TRUE, msg |-> ""]

validate(query) ==
    LET query_upper == UpperText(strip(query))
        multiple == check_multiple_statements(query)
        parsed == sqlparse_parse(strip(query))
        failed == {i \in 1..Len(parsed) : ~_validate_statement(parsed[i]).ok}
    IN  IF strip(query) = <<>>
        THEN [ok |-> FALSE, msg |-> "Query is empty"]
        ELSE IF ~(\/ StartsWithWord(query_upper, "SELECT")
                  \/ StartsWithWord(query_upper, "WITH"))
        THEN [ok |-> FALSE,
              msg |-> "Only SELECT queries are allowed. Query must start with SELECT or WITH (for CTEs)"]
        ELSE IF ~multiple.ok THEN multiple
        ELSE IF parsed = <<>>
        THEN [ok |-> FALSE, msg |-> "Failed to parse SQL query"]
        ELSE IF failed # {} THEN _validate_statement(parsed[Min(failed)])
        ELSE [ok |-> TRUE, msg |-> ""]

\* lexemes of the texts validate is tried on
ValidatorLexemes ==
    {"SELECT", "select", "WITH", "DELETE", "delete", "UPDATE", "DROP",
     "TABLE", "x", ";", "--", "\n", "/*", "*/", "'"}

\* longest text tried of all those the lexemes spell
MaxValidatorLen == 4

\* longer texts: stacked statements, statements between quoted comment
\* marks, comments around the first keyword
StackedDrop == <<"SELECT", "x", ";", "DROP", "TABLE", "x", ";">>

QuotedMarksSelect ==
    <<"SELECT", "'", "/*", "'", ";", "SELECT", "'", "*/", "'">>

QuotedMarksDelete ==
    <<"SELECT", "'", "/*", "'", ";", "DELETE", "x", "'", "*/", "'">>

LongerTexts ==
    {StackedDrop, QuotedMarksSelect, QuotedMarksDelete,
     <<"SELECT", "'", "/*", "'", ",", "'", "DROP", "TABLE", "'", ";",
       "DELETE", "x", "'", "*/", "'">>,
     <<"WITH", "--", "x", "\n", "delete", "x">>,
     <<"WITH", "x", "/*", "SELECT", "*/", "UPDATE", "x", "--", "x">>,
     <<"WITH", "x", "SELECT", "x", ";">>,
     <<"\n", "select", "/*", "x", "*/", "x", "--", "x", "\n", ";", "\n">>,
     <<"SELECT", "x", ";", "--", "x", "\n", "/*", "x", "*/">>,
     <<"SELECT", "'", "DROP", "TABLE", "'", ";", "\n", "--", "x">>,
     <<"SELECT", "x", "UNION", "SELECT", "x">>,
     <<"WITH", "x", "UNION", "SELECT", "x">>,
     <<"SELECT", "x", "OR", "/*", "x", "*/", "1=1">>,
     <<"SELECT", "x", "/*", "OR", "1=1", "*/">>}

\* lexemes of the texts with injection substrings and unions
InjectionLexemes ==
    {"SELECT", "WITH", "x", "OR", "or", "1=1", "EXEC(", "exec(", "xp_",
     "sp_", "UNION", "union", "/*", "*/", "--", "\n", "'"}

ValidatorTexts ==
    UNION {[1..n -> ValidatorLexemes] : n \in 0..MaxValidatorLen}
        \cup UNION {[1..n -> InjectionLexemes] : n \in 0..MaxValidatorLen}
        \cup LongerTexts

\* a call of SQLValidator.validate
validate_call ==
    /\ v_result = <<>>
    /\ v_result' = <<validate(v_query)>>
    /\ UNCHANGED <<v_query, wf_vars, ex_vars, fn_vars>>

(***************************************************************************)
(* execute_query (utils/common/db.py).                                     *)
(***************************************************************************)
\* lexemes of the texts execute_query is tried on
SqlLexemes == {"SELECT", "select", "x", ";", "TRUNCATE", "--", "\n"}

\* longest text tried
MaxSqlLen == 3

SqlTexts == UNION {[1..n -> SqlLexemes] : n \in 0..MaxSqlLen}

\* a variant with the prefix check and the semicolon check only
execute_query_check_unvalidated ==
    /\ ex_pc = "check"
    /\ LET query_upper == UpperText(strip(ex_query))
       IN  IF ~(\/ StartsWithWord(query_upper, "SELECT")
                \/ StartsWithWord(query_upper, "WITH"))
           THEN ex_pc' = "raised"
           ELSE IF \/ Count(ex_query, ";") > 1
                   \/ /\ Count(ex_query, ";") = 1
                      /\ Last(strip(ex_query)) # ";"
           THEN ex_pc' = "raised"
           ELSE ex_pc' = "connect"
    /\ UNCHANGED <<ex_query, ex_db, wf_vars, val_vars, fn_vars>>

\* the validation, the prefix check and the semicolon check, in this order;
\* any of them raises ValueError before the engine is created
execute_query_check ==
    /\ ex_pc = "check"
    /\ LET query_upper == UpperText(strip(ex_query))
       IN  IF ~validate(ex_query).ok
           THEN ex_pc' = "raised"
           ELSE IF ~(\/ StartsWithWord(query_upper, "SELECT")
                     \/ StartsWithWord(query_upper, "WITH"))
           THEN ex_pc' = "raised"
           ELSE IF \/ Count(ex_query, ";") > 1
                   \/ /\ Count(ex_query, ";") = 1
                      /\ Last(strip(ex_query)) # ";"
           THEN ex_pc' = "raised"
           ELSE ex_pc' = "connect"
    /\ UNCHANGED <<ex_query, ex_db, wf_vars, val_vars, fn_vars>>

\* engine.connect(), then the count query and the limited query over
\* clean_query = sql_query.strip().rstrip(';').strip()
execute_query_run ==
    /\ ex_pc = "connect"
    /\ ex_db' = Append(ex_db, strip(rstrip_semicolons(strip(ex_query))))
    /\ ex_pc' = "done"
    /\ UNCHANGED <<ex_query, wf_vars, val_vars, fn_vars>>

(***************************************************************************)
(* IndustrySICMapping.validate_codes (workflows/models.py).  A code is the *)
(* sequence of its characters.                                             *)
(***************************************************************************)
Digits == <<"0", "1", "2", "3", "4", "5", "6", "7", "8", "9">>

\* a character that str.isdigit accepts and int() does not
Superscript == "[superscript two]"

\* str.isdigit of a character
isdigit(ch) == InSeq(ch, Digits) \/ ch = Superscript

\* int(digits) raises ValueError
int_raises(digits) == \E i \in 1..Len(digits) : ~InSeq(digits[i], Digits)

\* the validator raises: a code of four isdigit characters that int()
\* cannot read.  The response then fails validation as a whole
validate_codes_raises(codes) ==
    \E i \in 1..Len(codes) :
        LET digits == SelectSeq(codes[i], isdigit)
        IN  codes[i] # <<>> /\ Len(digits) = 4 /\ int_raises(digits)

digit_value(ch) == (CHOOSE i \in 1..10 : Digits[i] = ch) - 1

\* int(digits) of a four-digit text
int4(digits) ==
    digit_value(digits[1]) * 1000 + digit_value(digits[2]) * 100
        + digit_value(digits[3]) * 10 + digit_value(digits[4])

RECURSIVE validate_codes(_)
validate_codes(codes) ==
    IF codes = <<>> THEN <<>>
    ELSE LET code == Head(codes)
             digits == SelectSeq(code, isdigit)
         IN  IF code = <<>> THEN validate_codes(Tail(codes))
             ELSE IF Len(digits) # 4 THEN validate_codes(Tail(codes))
             ELSE IF int4(digits) <= 8999
             THEN <<digits>> \o validate_codes(Tail(codes))
             ELSE validate_codes(Tail(codes))

(***************************************************************************)
(* IndustryMapper (utils/text_to_sql/industry_mapper.py).  An industry     *)
(* description is [industry, customer]: the text "industry for customer",  *)
(* or the industry alone when customer is None.                            *)
(***************************************************************************)
\* what the structured capability may answer before validation; failed is
\* an exception of the call
MappingOutcomes ==
    {[failed |-> FALSE, codes |-> <<<<"7", "3", "4", "9">>>>, rationale |-> None],
     [failed |-> FALSE,
      codes |-> <<<<"8", "0", "-", "1", "1">>, <<"9", "9", "9", "9">>,
                  <<"1", "2">>>>,
      rationale |-> "offices of doctors"],
     [failed |-> FALSE, codes |-> <<<<"9", "0", "0", "0">>>>,
      rationale |-> "not an industry"],
     [failed |-> TRUE, codes |-> <<>>, rationale |-> None]}

RationaleInvalid == "The provided industry description is not a valid or recognizable industry."

RationaleSpecific == "Please provide a more specific or standard industry name."

\* str(IndustryNotFoundError(industry_name, rationale)), the name left out
IndustryNotFoundError(rationale) ==
    CASE rationale = None ->
            "We don't have data regarding the industry. The provided industry description is not a valid or recognizable industry."
      [] rationale = RationaleSpecific ->
            "We don't have data regarding the industry. Please provide a more specific or standard industry name."
      [] rationale = "not an industry" ->
            "We don't have data regarding the industry. not an industry"
      [] OTHER -> "We don't have data regarding the industry."

cache_key(industry_name, exclusion_context) ==
    <<lower_strip(industry_name.industry), lower_strip(industry_name.customer),
      IF Truthy(exclusion_context) THEN lower_strip(exclusion_context) ELSE None>>

\* a variant that stores nothing in the cache
get_sic_codes_for_query_unstored(c, industry_name, exclusion_context, outcome) ==
    LET key == cache_key(industry_name, exclusion_context)
    IN  IF lower_strip(industry_name.industry) = ""
        THEN [cache |-> c, found |-> FALSE,
              error |-> IndustryNotFoundError(RationaleSpecific)]
        ELSE IF key \in DOMAIN c
        THEN [cache |-> c, found |-> TRUE, mapping |-> c[key]]
        ELSE IF outcome.failed \/ validate_codes_raises(outcome.codes)
        THEN [cache |-> c, found |-> FALSE,
              error |-> IndustryNotFoundError(RationaleSpecific)]
        ELSE LET response == [codes |-> validate_codes(outcome.codes),
                              rationale |-> outcome.rationale]
             IN  IF response.codes = <<>>
                 THEN [cache |-> c, found |-> FALSE,
                       error |-> IndustryNotFoundError(response.rationale)]
                 ELSE [cache |-> c, found |-> TRUE, mapping |-> response]

\* whether _get_mapping reaches structured_llm.invoke
llm_invoked(c, industry_name, exclusion_context) ==
    /\ lower_strip(industry_name.industry) # ""
    /\ cache_key(industry_name, exclusion_context) \notin DOMAIN c

\* _get_mapping and get_sic_codes_for_query: the cache afterwards, and the
\* mapping or the error raised
get_sic_codes_for_query(c, industry_name, exclusion_context, outcome) ==
    LET key == cache_key(industry_name, exclusion_context)
    IN  IF lower_strip(industry_name.industry) = ""
        THEN [cache |-> c, found |-> FALSE,
              error |-> IndustryNotFoundError(RationaleSpecific)]
        ELSE IF key \in DOMAIN c
        THEN [cache |-> c, found |-> TRUE, mapping |-> c[key]]
        ELSE IF outcome.failed \/ validate_codes_raises(outcome.codes)
        THEN [cache |-> c, found |-> FALSE,
              error |-> IndustryNotFoundError(RationaleSpecific)]
        ELSE LET response == [codes |-> validate_codes(outcome.codes),
                              rationale |-> outcome.rationale]
             IN  IF response.codes = <<>>
                 THEN [cache |-> c, found |-> FALSE,
                       error |-> IndustryNotFoundError(response.rationale)]
                 ELSE [cache |-> (key :> response) @@ c, found |-> TRUE,
                       mapping |-> response]

(***************************************************************************)
(* map_industry_node (workflows/nodes/mapping.py).                         *)
(***************************************************************************)
\* "," in text, and [i.strip() for i in text.split(",")], on the model's texts
has_comma(text) == text \in {"tech, law", "owner, manager", "change it, not gyms"}

split_commas(text) ==
    CASE text = "tech, law" -> <<"tech", "law">>
      [] text = "owner, manager" -> <<"owner", "manager">>
      [] text = "change it, not gyms" -> <<"change it", "not gyms">>
      [] OTHER -> <<text>>

\* f"{industry} for {target_customer_type}", or the industry alone
describe(industry, target_customer_type) ==
    [industry |-> industry,
     customer |-> IF Truthy(target_customer_type)
                     /\ ~is_empty_value(target_customer_type)
                  THEN target_customer_type ELSE None]

\* existing_industry_input.lower().strip() == industry.lower().strip()
same_industry_input(industry_input, industry) ==
    /\ industry_input.customer = None
    /\ lower_strip(industry_input.industry) = lower_strip(industry)

\* the outcomes the capability may give where it is called: a call for a
\* name in the cache, or for an empty name, does not reach it
outcomes_for(c, industry_name) ==
    IF \/ lower_strip(industry_name.industry) = ""
       \/ cache_key(industry_name, None) \in DOMAIN c
    THEN {CHOOSE o \in MappingOutcomes : o.failed}
    ELSE MappingOutcomes

\* the first loop: codes and mappings of the industries that resolve; every
\* result the capability's outcomes allow
RECURSIVE map_each(_, _, _)
map_each(c, names, acc) ==
    IF names = <<>> THEN {[cache |-> c, items |-> acc]}
    ELSE UNION {LET r == get_sic_codes_for_query(c, Head(names), None, outcome)
                IN  map_each(r.cache, Tail(names),
                             IF r.found
                             THEN Append(acc, [name |-> Head(names),
                                               codes |-> r.mapping.codes,
                                               rationale |-> None])
                             ELSE acc) :
                outcome \in outcomes_for(c, Head(names))}

\* the second loop: the rationales of the industries that resolve
RECURSIVE rationale_each(_, _, _)
rationale_each(c, names, acc) ==
    IF names = <<>> THEN {[cache |-> c, items |-> acc]}
    ELSE UNION {LET r == get_sic_codes_for_query(c, Head(names), None, outcome)
                IN  rationale_each(r.cache, Tail(names),
                                   IF r.found /\ Truthy(r.mapping.rationale)
                                   THEN Append(acc, [name |-> Head(names),
                                                     codes |-> <<>>,
                                                     rationale |-> r.mapping.rationale])
                                   ELSE acc) :
                outcome \in outcomes_for(c, Head(names))}

RECURSIVE extend_all(_)
extend_all(items) ==
    IF items = <<>> THEN <<>> ELSE Head(items).codes \o extend_all(Tail(items))

\* list(set(codes)): the distinct codes in some order
list_set(codes) ==
    LET S == {codes[i] : i \in 1..Len(codes)}
    IN  {l \in [1..Cardinality(S) -> S] :
            \A i, j \in 1..Cardinality(S) : l[i] = l[j] => i = j}

\* the first user turn among the last turns that has an exclusion keyword
exclusion_context_of(conversation_history) ==
    LET recent == Tail_n(conversation_history, ExclusionCheckTurns)
        hits == {i \in 1..Len(recent) :
                    /\ recent[i].role = "user"
                    /\ HasExclusionKeyword(recent[i].content)}
    IN  IF hits = {} THEN None ELSE recent[Min(hits)].content

map_industry_node ==
    /\ pc = "map_industry"
    /\ LET industry == state.extracted_info["industry"]
           target_customer_type == state.extracted_info["target_customer_type"]
           mentioned_fields == state.mentioned_fields
           is_update_request == state.sql_query # <<>>
           preserved ==
               \/ /\ is_update_request /\ "industry" \notin mentioned_fields
                  /\ state.sic_context # <<>>
               \/ ~Truthy(industry) \/ is_empty_value(industry)
               \/ /\ is_update_request /\ "industry" \in mentioned_fields
                  /\ state.sic_context # <<>>
                  /\ same_industry_input(state.sic_context[1].industry_input,
                                         industry)
           industry_description == describe(industry, target_customer_type)
       IN  \/ \* the existing sic_context is kept, or there is no industry
              /\ preserved
              /\ UNCHANGED <<state, cache, not_found>>
           \/ \* several industries: each is resolved, failures are skipped
              /\ ~preserved /\ has_comma(industry)
              /\ LET industries_list == split_commas(industry)
                     names == [i \in 1..Len(industries_list) |->
                                 describe(industries_list[i],
                                          target_customer_type)]
                 IN  \E first \in map_each(cache, names, <<>>) :
                     \E second \in rationale_each(first.cache, names, <<>>) :
                        LET all_codes == extend_all(first.items)
                            combined_rationale ==
                                IF second.items # <<>>
                                THEN [text |-> "Multiple industries mapped:",
                                      parts |-> second.items]
                                ELSE [text |-> "Multiple industries mapped: ",
                                      parts |-> first.items]
                        IN  /\ \E codes \in list_set(all_codes) :
                                state' = [state EXCEPT !.sic_context =
                                    <<[industry_input |-> industry_description,
                                       codes |-> codes,
                                       rationale |-> combined_rationale]>>]
                            /\ cache' = second.cache
                            /\ not_found' = not_found
           \/ \* one industry
              /\ ~preserved /\ ~has_comma(industry)
              /\ \E outcome \in MappingOutcomes :
                    LET exclusion_context ==
                            exclusion_context_of(state.conversation_history)
                        r == get_sic_codes_for_query(cache, industry_description,
                                                     exclusion_context, outcome)
                    IN  /\ cache' = r.cache
                        /\ IF r.found
                           THEN /\ state' = [state EXCEPT !.sic_context =
                                    <<[industry_input |-> industry_description,
                                       codes |-> r.mapping.codes,
                                       rationale |->
                                          [text |->
                                              IF Truthy(r.mapping.rationale)
                                              THEN r.mapping.rationale
                                              ELSE "LLM provided these SIC codes based on domain knowledge.",
                                           parts |-> <<>>]]>>]
                                /\ not_found' = not_found
                           ELSE /\ state' = [state EXCEPT !.sql_error = r.error,
                                                          !.sql_valid = "False"]
                                /\ not_found' = TRUE
    /\ pc' = "map_title"
    /\ ran' = Append(ran, "map_industry")
    /\ UNCHANGED <<session, turns, branch, validated, llm_sql, ex_vars,
                   val_vars, fn_vars>>

(***************************************************************************)
(* TitleTierMapper (utils/text_to_sql/title_tier_mapper.py).               *)
(***************************************************************************)
\* title_tiers.tier_keywords of the configuration file
tier_i_keywords == <<"owner", "ceo">>

tier_ii_keywords == <<"director">>

tier_iii_keywords == <<"manager">>

\* the words of the titles tried, and the titles: one word, or two with a
\* blank between them, or a word in capitals or between blanks
TitleWords == {"owner", "ceo", "director", "manager", "intern", "vp", "e"}

TierKeywords == {"owner", "ceo", "director", "manager"}

TierTitles ==
    TitleWords \cup {a \o " " \o b : a, b \in TitleWords}
        \cup {"CEO", " Director ", " ", "", None}

\* the pairs <<a, b>> of a keyword and a lower-cased title, either way
\* round, with a a proper part of b
SubstringPairs ==
    {<<k, a \o " " \o k>> : k \in TierKeywords, a \in TitleWords}
        \cup {<<k, k \o " " \o b>> : k \in TierKeywords, b \in TitleWords}
        \cup {<<"e", k>> : k \in TierKeywords}

\* a in b, on the model's texts
is_substring(a, b) == a = b \/ a = "" \/ <<a, b>> \in SubstringPairs

keyword_matches(keywords, normalized) ==
    \E i \in 1..Len(keywords) :
        is_substring(keywords[i], normalized) \/ is_substring(normalized, keywords[i])

\* a variant that checks tier II before tier I
match_title_to_tier_ii_first(title_keyword) ==
    LET normalized == lower_strip(title_keyword)
    IN  IF ~Truthy(title_keyword) THEN None
        ELSE IF keyword_matches(tier_ii_keywords, normalized) THEN "tier_ii"
        ELSE IF keyword_matches(tier_i_keywords, normalized) THEN "tier_i"
        ELSE IF keyword_matches(tier_iii_keywords, normalized) THEN "tier_iii"
        ELSE None

match_title_to_tier(title_keyword) ==
    LET normalized == lower_strip(title_keyword)
    IN  IF ~Truthy(title_keyword) THEN None
        ELSE IF keyword_matches(tier_i_keywords, normalized) THEN "tier_i"
        ELSE IF keyword_matches(tier_ii_keywords, normalized) THEN "tier_ii"
        ELSE IF keyword_matches(tier_iii_keywords, normalized) THEN "tier_iii"
        ELSE None

generate_title_sql_condition(title_keyword) ==
    LET tier == match_title_to_tier(title_keyword)
    IN  CASE tier = "tier_i" -> "title_tier = 'tier_i'"
          [] tier = "tier_ii" -> "title_tier = 'tier_ii'"
          [] tier = "tier_iii" -> "title_tier = 'tier_iii'"
          [] OTHER -> None

\* f"({' OR '.join(unique_conditions)})" of two conditions
or_join(a, b) ==
    CASE a = "title_tier = 'tier_i'" /\ b = "title_tier = 'tier_ii'" ->
            "(title_tier = 'tier_i' OR title_tier = 'tier_ii')"
      [] a = "title_tier = 'tier_ii'" /\ b = "title_tier = 'tier_i'" ->
            "(title_tier = 'tier_ii' OR title_tier = 'tier_i')"
      [] a = "title_tier = 'tier_i'" /\ b = "title_tier = 'tier_iii'" ->
            "(title_tier = 'tier_i' OR title_tier = 'tier_iii')"
      [] a = "title_tier = 'tier_iii'" /\ b = "title_tier = 'tier_i'" ->
            "(title_tier = 'tier_iii' OR title_tier = 'tier_i')"
      [] a = "title_tier = 'tier_ii'" /\ b = "title_tier = 'tier_iii'" ->
            "(title_tier = 'tier_ii' OR title_tier = 'tier_iii')"
      [] a = "title_tier = 'tier_iii'" /\ b = "title_tier = 'tier_ii'" ->
            "(title_tier = 'tier_iii' OR title_tier = 'tier_ii')"

\* the conditions a comma-separated title of two parts may yield: the
\* distinct conditions are joined in the order of a set
multi_title_conditions(title) ==
    LET titles_list == split_commas(title)
        found == {generate_title_sql_condition(titles_list[i]) :
                    i \in 1..Len(titles_list)} \ {None}
    IN  IF found = {} THEN {None}
        ELSE IF Cardinality(found) = 1 THEN found
        ELSE {or_join(a, b) : a, b \in found} \ {or_join(a, a) : a \in found}

(***************************************************************************)
(* map_title_node (workflows/nodes/mapping.py).                            *)
(***************************************************************************)
map_title_node ==
    /\ pc = "map_title"
    /\ LET title == state.extracted_info["title"]
           mentioned_fields == state.mentioned_fields
           is_update_request == state.sql_query # <<>>
           existing_condition == state.title_sql_condition
           history == state.extraction_history
           \* titles of the extractions before this one that gave a title
           previous_extractions ==
               IF history = <<>> THEN <<>>
               ELSE SelectSeq(SubSeq(history, 1, Len(history) - 1),
                              LAMBDA e : Truthy(e["title"]))
           preserved ==
               \/ /\ is_update_request /\ "title" \notin mentioned_fields
                  /\ Truthy(existing_condition)
               \/ ~Truthy(title) \/ is_empty_value(title)
               \/ /\ is_update_request /\ "title" \in mentioned_fields
                  /\ previous_extractions # <<>>
                  /\ lower(Last(previous_extractions)["title"]) = lower(title)
                  /\ Truthy(existing_condition)
           conditions ==
               IF has_comma(title) THEN multi_title_conditions(title)
               ELSE {generate_title_sql_condition(title)}
       IN  IF preserved THEN state' = state
           ELSE \E title_sql_condition \in conditions :
                    state' = IF Truthy(title_sql_condition)
                             THEN [state EXCEPT !.title_sql_condition =
                                                    title_sql_condition]
                             ELSE state
    /\ pc' = "generate_sql"
    /\ ran' = Append(ran, "map_title")
    /\ UNCHANGED <<session, cache, turns, branch, validated, not_found,
                   llm_sql, ex_vars,
                   val_vars, fn_vars>>

(***************************************************************************)
(* generate_sql_node (workflows/nodes/sql_generation.py).                  *)
(***************************************************************************)
\* the lexeme of a markdown code fence (three backquotes)
Fence == "[fence]"

\* response.content of the SQL-synthesis capability
SqlReplies ==
    {<<"SELECT", "x">>,
     <<"\n", Fence, "sql", "\n", "SELECT", "x", "\n", Fence>>,
     <<"SELECT", "x", ";", "DROP", "TABLE", "x">>,
     <<>>}

\* sql_query.split(fence)[1]: the text between the first two fences
between_fences(text) ==
    LET rest == Tail(text)
        fences == {i \in 1..Len(rest) : rest[i] = Fence}
    IN  IF fences = {} THEN rest ELSE SubSeq(rest, 1, Min(fences) - 1)

\* the reply stripped, and taken out of its markdown code block if any
clean_sql(content) ==
    LET sql_query == strip(content)
        inner == between_fences(sql_query)
    IN  IF StartsWithWord(sql_query, Fence)
        THEN strip(IF StartsWithWord(inner, "sql") THEN Tail(inner) ELSE inner)
        ELSE sql_query

MsgNoneType == "'NoneType' object has no attribute 'get'"

generate_sql_node ==
    /\ pc = "generate_sql"
    /\ LET industry == state.extracted_info["industry"]
           \* state.get("sic_context", {}) is None when the key holds None
           sic_context_is_none == state.sic_context = <<>>
           \* sic_context.get("codes") on None, outside any try
           attribute_error ==
               /\ Truthy(industry) /\ ~is_empty_value(industry)
               /\ ~has_comma(industry)
               /\ sic_context_is_none
       IN  \/ \* the schema cannot be retrieved
              /\ state' = [state EXCEPT
                              !.sql_error = "Unable to retrieve database schema",
                              !.sql_valid = "False"]
              /\ pc' = "validate_sql"
              /\ llm_sql' = llm_sql
           \/ \* AttributeError leaves the node and the graph
              /\ attribute_error
              /\ state' = state
              /\ pc' = "raised"
              /\ llm_sql' = llm_sql
           \/ \* the capability replies
              /\ ~attribute_error
              /\ \E content \in SqlReplies :
                    LET generated == [state EXCEPT
                                         !.sql_query = <<clean_sql(content)>>,
                                         !.workflow_state = "generating"]
                    IN  state' = IF sic_context_is_none
                                 THEN \* the check after the reply fails on None
                                      [generated EXCEPT
                                          !.sql_error = MsgNoneType,
                                          !.sql_valid = "False"]
                                 ELSE generated
              /\ pc' = "validate_sql"
              /\ llm_sql' = TRUE
           \/ \* the capability fails
              /\ ~attribute_error
              /\ state' = [state EXCEPT !.sql_error = "LLM call failed",
                                        !.sql_valid = "False"]
              /\ pc' = "validate_sql"
              /\ llm_sql' = llm_sql
    /\ ran' = Append(ran, "generate_sql")
    /\ UNCHANGED <<session, cache, turns, branch, validated, not_found, ex_vars,
                   val_vars, fn_vars>>

(***************************************************************************)
(* validate_sql_node (workflows/nodes/sql_generation.py) and the edge      *)
(* should_ask_followup (workflows/edges.py).                               *)
(***************************************************************************)
should_ask_followup(st) ==
    IF ~sql_truthy(st.sql_query) \/ st.sql_valid # "True" THEN "end"
    ELSE "ask_followup"

\* a variant that takes any non-empty text as valid
validate_sql_apply_trusting(st) ==
    IF ~sql_truthy(st.sql_query)
    THEN [st EXCEPT !.sql_valid = "False",
                    !.sql_error = "No SQL query to validate"]
    ELSE [st EXCEPT !.sql_valid = "True", !.sql_error = None,
                    !.workflow_state = "complete"]

\* a variant that sets the mode whatever the validator returned
validate_sql_apply_always_complete(st) ==
    IF ~sql_truthy(st.sql_query)
    THEN [st EXCEPT !.sql_valid = "False",
                    !.sql_error = "No SQL query to validate"]
    ELSE LET result == validate(st.sql_query[1])
         IN  IF result.ok
             THEN [st EXCEPT !.sql_valid = "True", !.sql_error = None,
                             !.workflow_state = "complete"]
             ELSE [st EXCEPT !.sql_valid = "False", !.sql_error = result.msg,
                             !.workflow_state = "complete"]

validate_sql_apply(st) ==
    IF ~sql_truthy(st.sql_query)
    THEN [st EXCEPT !.sql_valid = "False",
                    !.sql_error = "No SQL query to validate"]
    ELSE LET result == validate(st.sql_query[1])
         IN  IF result.ok
             THEN [st EXCEPT !.sql_valid = "True", !.sql_error = None,
                             !.workflow_state = "complete"]
             ELSE [st EXCEPT !.sql_valid = "False", !.sql_error = result.msg]

validate_sql_node ==
    /\ pc = "validate_sql"
    /\ state' = validate_sql_apply(state)
    /\ validated' = IF sql_truthy(state.sql_query) /\ validate(state.sql_query[1]).ok
                    THEN validated \cup {state.sql_query[1]}
                    ELSE validated
    /\ pc' = IF should_ask_followup(state') = "ask_followup"
             THEN "request_clarification" ELSE "END"
    /\ ran' = Append(ran, "validate_sql")
    /\ UNCHANGED <<session, cache, turns, branch, not_found, llm_sql, ex_vars,
                   val_vars, fn_vars>>

(***************************************************************************)
(* run_workflow (app.py): the end of a turn.                               *)
(***************************************************************************)
\* workflow.invoke returned: the result becomes the session's state
save_result ==
    /\ pc = "END"
    /\ session' = <<state>>
    /\ pc' = "idle"
    /\ UNCHANGED <<state, cache, turns, branch, ran, validated, not_found,
                   llm_sql, ex_vars,
                   val_vars, fn_vars>>

\* workflow.invoke raised: the session keeps the dictionary it had.  On a
\* resumed turn that dictionary was handed to the graph, and the objects it
\* holds may or may not be the ones the nodes changed in place
handle_exception ==
    /\ pc = "raised"
    /\ \/ session' = session
       \/ /\ branch = "resume"
          /\ session' = <<[session[1] EXCEPT
                             !.conversation_context = state.conversation_context,
                             !.extraction_history = state.extraction_history]>>
    /\ pc' = "idle"
    /\ UNCHANGED <<state, cache, turns, branch, ran, validated, not_found,
                   llm_sql, ex_vars,
                   val_vars, fn_vars>>

(***************************************************************************)
(* The thread: one turn after the other.                                   *)
(***************************************************************************)
Init ==
    /\ session = <<>>
    /\ state = create_initial_state("")
    /\ pc = "idle"
    /\ cache = <<>>
    /\ turns = 0
    /\ branch = "new"
    /\ ran = <<>>
    /\ validated = {}
    /\ not_found = FALSE
    /\ llm_sql = FALSE
    /\ ex_query = <<>>
    /\ ex_pc = "done"
    /\ ex_db = <<>>
    /\ v_query = <<>>
    /\ v_result = <<>>
    /\ f_arg = <<>>
    /\ f_ret = <<>>

Next ==
    \/ run_workflow
    \/ conversation_manager_node
    \/ extract_info_node
    \/ validate_completeness_node
    \/ handle_update_node
    \/ request_clarification_node
    \/ map_industry_node
    \/ map_title_node
    \/ generate_sql_node
    \/ validate_sql_node
    \/ save_result
    \/ handle_exception

Spec == Init /\ [][Next]_vars

(***************************************************************************)
(* execute_query on its own: any text may be handed to it.                 *)
(***************************************************************************)
InitExec ==
    /\ session = <<>>
    /\ state = create_initial_state("")
    /\ pc = "idle"
    /\ cache = <<>>
    /\ turns = 0
    /\ branch = "new"
    /\ ran = <<>>
    /\ validated = {}
    /\ not_found = FALSE
    /\ llm_sql = FALSE
    /\ ex_query \in SqlTexts
    /\ ex_pc = "check"
    /\ ex_db = <<>>
    /\ v_query = <<>>
    /\ v_result = <<>>
    /\ f_arg = <<>>
    /\ f_ret = <<>>

NextExec ==
    \/ execute_query_check
    \/ execute_query_run

SpecExec == InitExec /\ [][NextExec]_vars

(***************************************************************************)
(* SQLValidator.validate on its own: any text may be handed to it.         *)
(***************************************************************************)
InitValidate ==
    /\ session = <<>>
    /\ state = create_initial_state("")
    /\ pc = "idle"
    /\ cache = <<>>
    /\ turns = 0
    /\ branch = "new"
    /\ ran = <<>>
    /\ validated = {}
    /\ not_found = FALSE
    /\ llm_sql = FALSE
    /\ ex_query = <<>>
    /\ ex_pc = "done"
    /\ ex_db = <<>>
    /\ v_query \in ValidatorTexts
    /\ v_result = <<>>
    /\ f_arg = <<>>
    /\ f_ret = <<>>

NextValidate == validate_call

SpecValidate == InitValidate /\ [][NextValidate]_vars

(***************************************************************************)
(* The helper functions called on their own.  The workflow stands still.   *)
(***************************************************************************)
Idle ==
    /\ session = <<>>
    /\ state = create_initial_state("")
    /\ pc = "idle"
    /\ cache = <<>>
    /\ turns = 0
    /\ branch = "new"
    /\ ran = <<>>
    /\ validated = {}
    /\ not_found = FALSE
    /\ llm_sql = FALSE
    /\ ex_query = <<>>
    /\ ex_pc = "done"
    /\ ex_db = <<>>
    /\ v_query = <<>>
    /\ v_result = <<>>

\* lexemes of the texts _remove_comments is tried on
CommentLexemes == {"x", "'", "--", "/*", "*/", "\n", ";"}

\* longest text tried
MaxCommentLen == 5

CommentTexts == UNION {[1..n -> CommentLexemes] : n \in 0..MaxCommentLen}

\* how many times the function is applied in a row
MaxPasses == 2

\* _remove_comments applied to the text, then to what it returned
remove_comments_call ==
    /\ Len(f_ret) < MaxPasses
    /\ f_ret' = Append(f_ret, _remove_comments(IF f_ret = <<>> THEN f_arg
                                                ELSE Last(f_ret)))
    /\ UNCHANGED <<f_arg, wf_vars, ex_vars, val_vars>>

InitComments == Idle /\ f_arg \in CommentTexts /\ f_ret = <<>>

NextComments == remove_comments_call

SpecComments == InitComments /\ [][NextComments]_vars

\* TitleTierMapper.match_title_to_tier applied to a title
match_title_call ==
    /\ f_ret = <<>>
    /\ f_ret' = <<match_title_to_tier(f_arg)>>
    /\ UNCHANGED <<f_arg, wf_vars, ex_vars, val_vars>>

InitTier == Idle /\ f_arg \in TierTitles /\ f_ret = <<>>

NextTier == match_title_call

SpecTier == InitTier /\ [][NextTier]_vars

\* the resolutions tried on one IndustryMapper: industry descriptions in
\* different spellings, with and without an exclusion context
MapperRequests ==
    [name : [industry : {"tech", "Tech", "cleaning", " "},
             customer : {None, "startups"}],
     exclusion : {None, "change it, not gyms"}]

\* resolutions in a row on the same mapper
MaxResolutions == 2

\* IndustryMapper.get_sic_codes_for_query for the next request: what it
\* returned, and whether the capability was invoked
resolve_call ==
    /\ Len(f_ret) < Len(f_arg)
    /\ \E outcome \in MappingOutcomes :
          LET request == f_arg[Len(f_ret) + 1]
              r == get_sic_codes_for_query(cache, request.name,
                                           request.exclusion, outcome)
          IN  /\ cache' = r.cache
              /\ f_ret' = Append(f_ret,
                    [found |-> r.found,
                     mapping |-> IF r.found THEN <<r.mapping>> ELSE <<>>,
                     invoked |-> llm_invoked(cache, request.name,
                                             request.exclusion)])
    /\ UNCHANGED <<session, state, pc, turns, branch, ran, validated,
                   not_found, llm_sql, ex_vars, val_vars, f_arg>>

InitMapper ==
    Idle /\ f_arg \in [1..MaxResolutions -> MapperRequests] /\ f_ret = <<>>

NextMapper == resolve_call

SpecMapper == InitMapper /\ [][NextMapper]_vars

\* characters of the codes tried, and the longest code
CodeChars == {"0", "8", "9", "-", Superscript}

MaxCodeLen == 5

Codes == UNION {[1..n -> CodeChars] : n \in 0..MaxCodeLen}

\* a code that is kept, beside which the others are tried
GoodCode == <<"7", "3", "4", "9">>

\* the code lists tried: empty, one code, or a code before or after a
\* good one
CodeLists ==
    {<<>>} \cup {<<code>> : code \in Codes}
        \cup {<<code, GoodCode>> : code \in Codes}
        \cup {<<GoodCode, code>> : code \in Codes}

\* IndustrySICMapping.validate_codes applied to a list of codes
validate_codes_call ==
    /\ f_ret = <<>>
    /\ f_ret' = IF validate_codes_raises(f_arg)
                THEN <<[raised |-> TRUE, codes |-> <<>>]>>
                ELSE <<[raised |-> FALSE, codes |-> validate_codes(f_arg)]>>
    /\ UNCHANGED <<f_arg, wf_vars, ex_vars, val_vars>>

InitCodes == Idle /\ f_arg \in CodeLists /\ f_ret = <<>>

NextCodes == validate_codes_call

SpecCodes == InitCodes /\ [][NextCodes]_vars

(***************************************************************************)
(* Properties.                                                             *)
(***************************************************************************)
\* the turn ended by returning a state
TurnReturned == pc = "END"

\* C1: at the end of a turn, sql_valid = true implies that sql_query is
\* non-empty and is a text on which the validator succeeded in this turn;
\* the state kept by the session never carries sql_valid = true with a text
\* the validator rejects
C1_ValidMeansValidated ==
    /\ TurnReturned /\ state.sql_valid = "True" =>
          /\ sql_truthy(state.sql_query)
          /\ state.sql_query[1] \in validated
    /\ session # <<>> /\ session[1].sql_valid = "True" =>
          /\ sql_truthy(session[1].sql_query)
          /\ validate(session[1].sql_query[1]).ok

\* a turn that ends with the text the capability wrote in a code block, valid
C1_Witness ==
    /\ TurnReturned
    /\ state.sql_valid = "True"
    /\ state.sql_query = <<<<"SELECT", "x">>>>
    /\ llm_sql

\* C2: execute_query reaches the connection, and the database receives a
\* statement, only for a text on which SQLValidator.validate succeeds and
\* that starts with SELECT or WITH; when it raises, nothing has been sent
C2_ExecuteOnlyValidated ==
    /\ ex_pc \in {"connect", "done"} =>
          /\ validate(ex_query).ok
          /\ \/ StartsWithWord(UpperText(strip(ex_query)), "SELECT")
             \/ StartsWithWord(UpperText(strip(ex_query)), "WITH")
    /\ ex_db # <<>> => ex_pc = "done" /\ validate(ex_query).ok
    /\ ex_pc = "raised" => ex_db = <<>>

\* a lower-case query with a trailing semicolon has been sent without it
C2_Witness ==
    /\ ex_pc = "done"
    /\ ex_query = <<"select", "x", ";">>
    /\ ex_db = <<<<"select", "x">>>>

\* C3: at the end of each turn at most one asked question has no answer,
\* and the clarification stage has run at most once in the turn
C3_AtMostOneOpenQuestion ==
    /\ TurnReturned =>
          Cardinality(Unanswered(state.conversation_context)) <= 1
    /\ pc = "idle" /\ session # <<>> =>
          Cardinality(Unanswered(session[1].conversation_context)) <= 1
    /\ Count(ran, "request_clarification") <= 1

\* the second turn asked a second question: the first is answered, the
\* second is open
C3_Witness ==
    /\ TurnReturned
    /\ Len(state.conversation_context.questions_asked) = 2
    /\ Unanswered(state.conversation_context) = {2}
    /\ state.needs_human_input

\* the turn started with a SQL statement of the thread, and the extraction
\* of this turn replied
UpdateTurn ==
    /\ session # <<>>
    /\ branch \in {"update", "resume"}
    /\ sql_truthy(session[1].sql_query)
    /\ Len(state.extraction_history) = Len(session[1].extraction_history) + 1

\* C4: on an update turn in which neither industry nor title is mentioned,
\* sic_context and title_sql_condition at the end of the turn are the ones
\* of its start
C4_ResolvedFiltersPreserved ==
    /\ TurnReturned
    /\ UpdateTurn
    /\ "industry" \notin state.mentioned_fields
    /\ "title" \notin state.mentioned_fields
    => /\ state.sic_context = session[1].sic_context
       /\ state.title_sql_condition = session[1].title_sql_condition

\* C5: when extraction runs with a SQL statement present, every field that
\* is not in mentioned_fields afterwards keeps the value it had
C5_UnmentionedFieldsKept ==
    [][pc = "extract_info" /\ state.sql_query # <<>> =>
          \A f \in FieldSet \ state'.mentioned_fields :
              state'.extracted_info[f] = state.extracted_info[f]]_vars

\* an update whose reply gave the title "owner" without the flag: the title
\* is still the other one
C5_Witness ==
    /\ ran # <<>> /\ Last(ran) = "extract_info"
    /\ branch = "update"
    /\ Len(state.extraction_history) = 2
    /\ Last(state.extraction_history)["title"] = "owner"
    /\ "title" \notin state.mentioned_fields
    /\ state.extracted_info["title"] = "intern"

NotFoundMessages ==
    {IndustryNotFoundError(r) :
        r \in {None, RationaleSpecific, "not an industry"}}

\* C6: a turn in which the industry is not found ends with sql_valid =
\* false, the not-found message in sql_error, and no SQL text generated
C6_NotFoundEndsTurn ==
    TurnReturned /\ not_found =>
        /\ state.sql_valid = "False"
        /\ state.sql_error \in NotFoundMessages
        /\ ~llm_sql

\* C7: no stage raises
C7_NoStageRaises == pc # "raised"

\* the routing the precedence asks for, from the state after the
\* completeness validation
RoutesToClarification(st) ==
    \/ \E i \in 1..Len(st.missing_fields) :
          st.missing_fields[i] \in {"geography", "industry"}
    \/ st.missing_fields # <<>>
    \/ /\ Truthy(st.extracted_info["geography"])
       /\ Truthy(st.extracted_info["industry"])
       /\ Len(st.conversation_context.questions_asked) < MaxContextual

\* C8: after the completeness validation the next stage is the
\* clarification stage if a required field is missing, else if any field
\* is missing, else if geography and industry are present and fewer
\* questions than the cap were asked; otherwise it is industry resolution
C8_ClarificationPrecedence ==
    ran # <<>> /\ Last(ran) = "validate_completeness" =>
        IF RoutesToClarification(state) THEN pc = "request_clarification"
        ELSE pc = "map_industry"

\* nothing is missing and no question was asked yet: the contextual question
C8_Witness ==
    /\ ran # <<>> /\ Last(ran) = "validate_completeness"
    /\ state.missing_fields = <<>>
    /\ Truthy(state.extracted_info["geography"])
    /\ state.conversation_context.questions_asked = <<>>
    /\ pc = "request_clarification"

\* C9: a turn routed to the clarification stage with nothing missing, in
\* which no question is produced, goes on to SQL synthesis and ends with a
\* SQL text or a SQL error
C9_ProgressWithoutQuestion ==
    /\ TurnReturned
    /\ ran = <<"conversation_manager", "extract_info",
               "validate_completeness", "request_clarification">>
    /\ state.missing_fields = <<>>
    /\ ~state.needs_human_input
    => /\ InSeq("generate_sql", ran)
       /\ sql_truthy(state.sql_query) \/ state.sql_error # None

\* C10: the step of the clarification stage that produces a question
\* appends it as an assistant turn at the end of the history, has it in
\* questions_asked, makes it the pending question, sets the suspend flag
\* and ends the turn; no other step sets the suspend flag
C10_SingleSuspendPoint ==
    [][/\ pc = "request_clarification" /\ state'.current_question # None =>
            /\ state'.needs_human_input
            /\ Last(state'.conversation_history) =
                  [role |-> "assistant",
                   content |-> state'.current_question,
                   question_asked |-> state'.current_question]
            /\ SubSeq(state'.conversation_history, 1,
                      Len(state'.conversation_history) - 1) =
                  Tail_n(state.conversation_history, MaxConversationTurns - 1)
            /\ InSeq(state'.current_question,
                     state'.conversation_context.questions_asked)
            /\ pc' = "END"
       /\ pc # "request_clarification" /\ state'.needs_human_input =>
            state.needs_human_input]_vars

\* a turn suspended by the clarification stage, after a SQL statement
C10_Witness ==
    /\ TurnReturned
    /\ Last(ran) = "request_clarification"
    /\ state.needs_human_input
    /\ state.current_question = "Which one?"
    /\ state.sql_valid = "True"

\* C11: once the number of questions asked has reached the cap, the
\* clarification stage entered after a successful validation of the SQL
\* text produces no question
C11_FollowupCap ==
    [][/\ pc = "request_clarification"
       /\ ran # <<>> /\ Last(ran) = "validate_sql"
       /\ state.sql_valid = "True"
       /\ Len(state.conversation_context.questions_asked) >= MaxContextual
       => ~state'.needs_human_input]_vars

\* the extraction of this step ran in new-request mode and the capability
\* replied: the reply is the last entry of the extraction history
NewRequestExtraction ==
    /\ pc = "extract_info"
    /\ state.sql_query = <<>>
    /\ Len(state'.extraction_history) = Len(state.extraction_history) + 1

\* C12: after an extraction in new-request mode a field flagged as
\* mentioned has the extracted value, empty or not; a field not flagged
\* whose extracted value is not empty has that value; every other field
\* has the value it had
C12_NewRequestExtraction ==
    [][NewRequestExtraction =>
          LET extracted == Last(state'.extraction_history)
          IN  \A f \in FieldSet :
                state'.extracted_info[f] =
                    IF f \in state'.mentioned_fields THEN extracted[f]
                    ELSE IF extracted[f] \notin {None, "", "none", "null",
                                                 "not specified"}
                    THEN extracted[f]
                    ELSE state.extracted_info[f]]_vars

\* a second extraction in new-request mode cleared the geography and the
\* employee size that the first one had set, and replaced the title
C12_Witness ==
    /\ ran # <<>> /\ Last(ran) = "extract_info"
    /\ state.sql_query = <<>>
    /\ Len(state.extraction_history) = 2
    /\ state.extraction_history[1]["geography"] = "Texas"
    /\ state.extraction_history[1]["title"] = "owner"
    /\ {"geography", "title"} \subseteq state.mentioned_fields
    /\ state.extracted_info["geography"] = None
    /\ state.extracted_info["title"] = "intern"

\* the texts that stand for no value
EmptyTexts == {None, "", "none", "null", "not specified"}

\* the field has no value and the user did not clear it in this turn
EmptyNotCleared(st, f) ==
    /\ st.extracted_info[f] \in EmptyTexts
    /\ ~(f \in st.mentioned_fields /\ st.extracted_info[f] = None)

\* the completeness validator sees the turn as an update of a SQL text
SeenAsUpdate(st) == st.sql_query # <<>>

C14_RecommendedFieldRule ==
    [][pc = "validate_completeness" =>
          \A f \in {"title", "employee_size"} :
              InSeq(f, state'.missing_fields) <=>
                  ~SeenAsUpdate(state) /\ EmptyNotCleared(state, f)]_vars

\* the validator ran on an update with no employee size, which this turn
\* did not clear: it is not asked for
C14_Witness ==
    /\ ran # <<>> /\ Last(ran) = "validate_completeness"
    /\ SeenAsUpdate(state)
    /\ EmptyNotCleared(state, "employee_size")
    /\ ~InSeq("employee_size", state.missing_fields)

\* the industry text contains one of the keywords
SqftKeywordIndustry(st) ==
    st.extracted_info["industry"] \in {"cleaning"}

\* C15: the validator puts square_footage in missing_fields exactly when
\* the request is new, the industry text contains a keyword and
\* square_footage is empty and was not cleared
C15_ConditionalFieldRule ==
    [][pc = "validate_completeness" =>
          (InSeq("square_footage", state'.missing_fields) <=>
              /\ ~SeenAsUpdate(state)
              /\ SqftKeywordIndustry(state)
              /\ EmptyNotCleared(state, "square_footage"))]_vars

\* a new request with geography and industry present, the industry being
\* a cleaning one: square_footage alone is asked for
C15_Witness ==
    /\ ran # <<>> /\ Last(ran) = "validate_completeness"
    /\ ~SeenAsUpdate(state)
    /\ state.extracted_info["geography"] = "Texas"
    /\ state.extracted_info["industry"] = "cleaning"
    /\ state.missing_fields = <<"square_footage">>

\* validate has returned for the text in v_query
Validated == v_result # <<>>

\* the statements validate looks at, once the text checks have passed
Statements(query) == sqlparse_parse(strip(query))

StatementText(statement) ==
    [i \in 1..Len(statement) |-> statement[i].value]

\* the first DML keyword of a token sequence, "" when it has none
FirstDml(tokens) ==
    LET dml == {i \in 1..Len(tokens) : tokens[i].ttype = "DML"}
    IN  IF dml = {} THEN "" ELSE Upper(tokens[Min(dml)].value)

\* the dangerous Keyword tokens of a token sequence
DangerousAt(tokens) ==
    {i \in 1..Len(tokens) :
        /\ tokens[i].ttype = "Keyword"
        /\ Upper(tokens[i].value) \in dangerous_keywords}

\* whether a statement fails check k of the list, for the checks made on a
\* parsed statement (5: first DML keyword, 6: dangerous keyword, 7: its
\* structure is WITH ... SELECT or SELECT, 8: injection patterns)
StatementFails(k, statement) ==
    LET normalized == strip(UpperText(StatementText(statement)))
    IN  CASE k = 5 -> FirstDml(statement) \notin {"", "SELECT"}
          [] k = 6 -> DangerousAt(statement) # {}
          [] k = 7 -> \/ ~StartsWithWord(normalized, "WITH")
                         /\ ~StartsWithWord(normalized, "SELECT")
                      \/ StartsWithWord(normalized, "WITH")
                         /\ ~ContainsSelect(normalized)
          [] k = 8 -> ~check_injection_patterns(StatementText(statement)).ok

\* the message of check k for a statement that fails it
StatementMessage(k, statement) ==
    LET normalized == strip(UpperText(StatementText(statement)))
    IN  CASE k = 5 -> MsgFound(FirstDml(statement))
          [] k = 6 -> MsgDangerous(Upper(statement[Min(DangerousAt(statement))].value))
          [] k = 7 -> IF StartsWithWord(normalized, "WITH")
                      THEN "WITH clause must be followed by a SELECT statement"
                      ELSE "Query must contain a SELECT statement"
          [] k = 8 -> check_injection_patterns(StatementText(statement)).msg

\* the checks of the list that the text fails, 1 to 8
FailedChecks(query) ==
    LET stripped == strip(query)
        parsed == Statements(query)
    IN  {k \in 1..8 :
            CASE k = 1 -> stripped = <<>>
              [] k = 2 -> /\ stripped # <<>>
                          /\ ~StartsWithWord(UpperText(stripped), "SELECT")
                          /\ ~StartsWithWord(UpperText(stripped), "WITH")
              [] k = 3 -> ~check_multiple_statements(query).ok
              [] k = 4 -> stripped # <<>> /\ parsed = <<>>
              [] OTHER -> \E i \in 1..Len(parsed) : StatementFails(k, parsed[i])}

\* the result the list prescribes: the message of the earliest failing
\* check (for a check on statements, of the first statement failing it)
FirstFailing(query) ==
    LET failed == FailedChecks(query)
        k == Min(failed)
        parsed == Statements(query)
        at == Min({i \in 1..Len(parsed) : StatementFails(k, parsed[i])})
    IN  IF failed = {} THEN [ok |-> TRUE, msg |-> ""]
        ELSE [ok |-> FALSE,
              msg |-> CASE k = 1 -> "Query is empty"
                        [] k = 2 -> "Only SELECT queries are allowed. Query must start with SELECT or WITH (for CTEs)"
                        [] k = 3 -> check_multiple_statements(query).msg
                        [] k = 4 -> "Failed to parse SQL query"
                        [] OTHER -> StatementMessage(k, parsed[at])]

\* C16: validate returns the message of the earliest check, in the order
\* empty, prefix, single statement, parse, first DML keyword, dangerous
\* keyword, WITH has a SELECT, injection patterns, that the text fails,
\* and success when it fails none
C16_CheckOrder ==
    Validated => v_result[1] = FirstFailing(v_query)

\* the multiple-statement messages for a text, whatever the number of
\* statements they give
MultipleReasons(query) == {MsgMultiple(n) : n \in 2..(Len(query) + 1)}

\* the tokens of a text as sqlparse's lexer types them
TextTokens(query) == Tokens(query, lex_modes(query, "code", <<>>))

\* the semicolons of a text that are code, not part of a comment or string
CodeSemicolons(query) ==
    {i \in 1..Len(query) :
        /\ TextTokens(query)[i].ttype = "Punctuation"
        /\ query[i] = ";"}

\* the lexemes that make a statement non-empty: neither comment, line
\* break nor delimiter
ContentAt(query) ==
    {i \in 1..Len(query) :
        TextTokens(query)[i].ttype \notin
            {"Comment.Single", "Comment.Multiline", "Newline", "Punctuation"}}

\* how many non-empty semicolon-delimited statements a text has
NonEmptyStatements(query) ==
    Cardinality({Cardinality({j \in CodeSemicolons(query) : j < i}) :
                    i \in ContentAt(query)})

\* the text begins with SELECT or WITH, in any case
SelectPrefix(query) ==
    \/ StartsWithWord(UpperText(strip(query)), "SELECT")
    \/ StartsWithWord(UpperText(strip(query)), "WITH")

\* C17: a text with more than one non-empty semicolon-delimited statement
\* is refused with the multiple-statement message (stated for the texts
\* that begin with SELECT or WITH, which the prefix check lets through)
C17_MultipleStatementsRejected ==
    Validated /\ SelectPrefix(v_query) /\ NonEmptyStatements(v_query) > 1
        => ~v_result[1].ok /\ v_result[1].msg \in MultipleReasons(v_query)

\* the messages that name DROP
NamesDrop ==
    {"Dangerous operation detected: DROP",
     "Potential SQL injection detected: ; DROP"}

\* C18: a SELECT followed by a stacked DROP TABLE statement is refused
\* with a message that names DROP as the dangerous operation
C18_StackedDropNamed ==
    Validated /\ v_query = StackedDrop
        => ~v_result[1].ok /\ v_result[1].msg \in NamesDrop

\* C19: a text whose first data-manipulation keyword is not SELECT is
\* refused, whatever the letter case of the keyword and whatever comments
\* stand before, after or between its words
C19_NonSelectDmlRefused ==
    Validated /\ FirstDml(TextTokens(v_query)) \notin {"", "SELECT"}
        => ~v_result[1].ok

\* a WITH text whose first DML keyword is a lower-case delete after a line
\* comment was refused for that keyword
C19_Witness ==
    /\ Validated
    /\ v_query = <<"WITH", "--", "x", "\n", "delete", "x">>
    /\ v_result[1] =
        [ok |-> FALSE, msg |-> "Only SELECT queries are allowed. Found: DELETE"]

\* every quote and comment mark of the text opens or closes a string or a
\* comment: none is left over as code
WellFormed(query) ==
    \A i \in 1..Len(query) :
        TextTokens(query)[i].ttype \in {"string", "Comment.Single", "Comment.Multiline"}
            \/ query[i] \notin {"'", "/*", "*/"}

\* at most one semicolon that is code, with line breaks only after it
TrailingSemicolonOnly(query) ==
    /\ Cardinality(CodeSemicolons(query)) <= 1
    /\ \A i \in CodeSemicolons(query) :
          \A j \in (i + 1)..Len(query) : query[j] = "\n"

\* a single SELECT or WITH ... SELECT statement
SingleSelectStatement(query) ==
    /\ SelectPrefix(query)
    /\ WellFormed(query)
    /\ TrailingSemicolonOnly(query)
    /\ FirstDml(TextTokens(query)) = "SELECT"

\* no dangerous keyword and no injection substring anywhere in the text,
\* comments and string literals included
FreeOfDanger(query) ==
    /\ \A i \in 1..Len(query) : Upper(query[i]) \notin dangerous_keywords
    /\ \A i \in 1..Len(INJECTION_PATTERNS) :
          ~Contains(UpperText(query), UpperText(INJECTION_PATTERNS[i]))
    /\ \A i \in 1..Len(DANGEROUS_STATEMENT_PATTERNS) :
          ~Contains(UpperText(query), DANGEROUS_STATEMENT_PATTERNS[i])

\* C20: a single SELECT or WITH ... SELECT statement, with at most one
\* trailing semicolon and with comments and string literals allowed, that
\* has no dangerous keyword and no injection substring is accepted
C20_SingleSelectAccepted ==
    Validated /\ SingleSelectStatement(v_query) /\ FreeOfDanger(v_query)
        => v_result[1].ok

\* the injection substrings that stand in the comment-stripped text, in
\* any letter case
InjectionSubstringsIn(query) ==
    {i \in 1..Len(INJECTION_PATTERNS) :
        Contains(UpperText(_remove_comments(query)),
                 UpperText(INJECTION_PATTERNS[i]))}

\* C21: a text whose comment-stripped form contains an injection
\* substring (a stacked-statement marker, OR 1=1, EXEC(, xp_, sp_), in any
\* letter case, is refused
C21_InjectionSubstringRefused ==
    Validated /\ InjectionSubstringsIn(v_query) # {} => ~v_result[1].ok

\* the comment-stripped, upper-cased text the injection scan reads
Scanned(query) == UpperText(_remove_comments(query))

\* where the first UNION of a scanned text stands
FirstUnion(text) == Min({j \in 1..Len(text) : text[j] = "UNION"})

\* C22: a text containing UNION SELECT is accepted only if a SELECT stands
\* before the UNION token and one after it
C22_UnionNeedsSelectBefore ==
    Validated /\ Contains(Scanned(v_query), <<"UNION", "SELECT">>)
              /\ v_result[1].ok
        => LET text == Scanned(v_query)
               union_pos == FirstUnion(text)
           IN  /\ Count(SubSeq(text, 1, union_pos - 1), "SELECT") >= 1
               /\ Count(SubSeq(text, union_pos, Len(text)), "SELECT") >= 1

\* C23: comment stripping is idempotent: stripping what _remove_comments
\* returned returns it unchanged
C23_StripIdempotent ==
    Len(f_ret) = 2 => f_ret[2] = f_ret[1]

\* a keyword of the list contains the normalized title or is contained in it
TierMatches(keywords, title) ==
    \E i \in 1..Len(keywords) :
        \/ is_substring(keywords[i], lower_strip(title))
        \/ is_substring(lower_strip(title), keywords[i])

\* C24: a title resolves to the first of the tiers I, II, III that has a
\* keyword containing the normalized title or contained in it, and to no
\* tier when none has; a title matching tier I and tier II resolves to
\* tier_i
C24_TierPriority ==
    f_ret # <<>> /\ Truthy(f_arg) =>
        f_ret[1] =
            IF TierMatches(tier_i_keywords, f_arg) THEN "tier_i"
            ELSE IF TierMatches(tier_ii_keywords, f_arg) THEN "tier_ii"
            ELSE IF TierMatches(tier_iii_keywords, f_arg) THEN "tier_iii"
            ELSE None

\* a title with a tier II keyword before a tier I keyword resolved to tier_i
C24_Witness ==
    /\ f_arg = "director ceo"
    /\ TierMatches(tier_i_keywords, f_arg)
    /\ TierMatches(tier_ii_keywords, f_arg)
    /\ f_ret = <<"tier_i">>

\* the trimmed, lower-cased industry text and the exclusion context of a
\* request
NormalizedRequest(request) ==
    <<lower_strip(request.name.industry), lower_strip(request.name.customer),
      request.exclusion>>

ValidCode(code) ==
    LET digits == SelectSeq(code, isdigit)
    IN  Len(digits) = 4 /\ ~int_raises(digits) /\ int4(digits) <= 8999

\* the valid codes of a list, stripped, in the order of the list
RECURSIVE KeptCodes(_)
KeptCodes(codes) ==
    IF codes = <<>> THEN <<>>
    ELSE (IF ValidCode(Head(codes))
          THEN <<SelectSeq(Head(codes), isdigit)>> ELSE <<>>)
            \o KeptCodes(Tail(codes))

\* C26: the codes kept are the valid codes of the response, each four
\* digits with a value from 0 to 8999; an invalid code is dropped on its
\* own and the other codes of the response are kept
C26_CodesValidatedIndependently ==
    f_ret # <<>> => ~f_ret[1].raised /\ f_ret[1].codes = KeptCodes(f_arg)

\* C27: at the end of a turn, and in the state the session keeps, the
\* mode is complete only with sql_valid true; a turn in which the
\* validator ran and refused the text does not end in mode complete
C27_CompleteMeansValid ==
    /\ TurnReturned /\ state.workflow_state = "complete"
          => state.sql_valid = "True"
    /\ session # <<>> /\ session[1].workflow_state = "complete"
          => session[1].sql_valid = "True"
    /\ TurnReturned /\ InSeq("validate_sql", ran)
                    /\ sql_truthy(state.sql_query)
                    /\ ~validate(state.sql_query[1]).ok
          => state.workflow_state # "complete"

\* the turn before ended in mode complete with a valid text; in this turn
\* the validator refused the new text and the turn ends in another mode
C27_Witness ==
    /\ session # <<>> /\ session[1].workflow_state = "complete"
    /\ session[1].sql_valid = "True"
    /\ TurnReturned
    /\ InSeq("validate_sql", ran)
    /\ sql_truthy(state.sql_query) /\ ~validate(state.sql_query[1]).ok
    /\ state.sql_valid = "False"
    /\ state.workflow_state # "complete"

\* in this turn the schema call or the SQL-synthesis capability failed:
\* generate_sql_node ran to its end without a text from the capability
SynthesisFailed ==
    InSeq("generate_sql", ran) /\ ~llm_sql /\ pc # "raised"

\* the descriptions generate_sql_node gives of the two failures
SynthesisErrors == {"Unable to retrieve database schema", "LLM call failed"}

\* the SQL text the thread held before the turn
SqlBeforeTurn == IF session = <<>> THEN <<>> ELSE session[1].sql_query

\* C28: a turn in which the schema call or the SQL-synthesis capability
\* fails ends with sql_valid false and sql_error describing the failure,
\* and with the SQL text held before the turn
C28_SynthesisFailure ==
    TurnReturned /\ SynthesisFailed =>
        /\ state.sql_valid = "False"
        /\ state.sql_error \in SynthesisErrors
        /\ state.sql_query = SqlBeforeTurn


\* a step of extract_info_node in which the extraction capability failed:
\* there is a user text and no reply was recorded in extraction_history
ExtractionFails ==
    /\ pc = "extract_info"
    /\ pc' # pc
    /\ Truthy(Last(state.messages))
    /\ state'.extraction_history = state.extraction_history

\* C29: when the extraction capability fails, extracted_info becomes the
\* record with all seven fields empty, and the turn goes on to the routing
\* after extraction instead of ending with an exception.
C29_ExtractionFailure ==
    [][ExtractionFails =>
           /\ state'.extracted_info = get_empty_extracted_info
           /\ pc' = route_after_extraction(state')]_vars


\* the bounded lists of the conversation memory are within their limits
MemoryWithinLimits ==
    /\ Len(state.conversation_history) <= MaxConversationTurns
    /\ Len(state.conversation_context.questions_asked) <= ConversationHistoryLimit
    /\ Len(state.conversation_context.corrections_made) <= MaxCorrectionsToKeep
    /\ Len(state.conversation_context.update_requests) <= MaxUpdatesToKeep

\* the entries this turn added are among those kept
MostRecentKept ==
    /\ \E i \in 1..Len(state.conversation_history) :
          /\ state.conversation_history[i].role = "user"
          /\ state.conversation_history[i].content = Last(state.messages)
    /\ HasUpdateKeyword(Last(state.messages)) =>
          /\ state.conversation_context.update_requests # <<>>
          /\ Last(state.conversation_context.update_requests) = Last(state.messages)
    /\ Truthy(state.current_question) /\ InSeq("request_clarification", ran) =>
          InSeq(state.current_question, state.conversation_context.questions_asked)

\* C30: at the end of every turn the conversation history, questions_asked,
\* corrections_made and update_requests are each within their configured
\* limit, and what truncation has kept are the most recent entries.
C30_MemoryBounds ==
    TurnReturned => MemoryWithinLimits /\ MostRecentKept


\* the <<question, answer>> items of a context's answers_received
AnswerItems(context) ==
    {context.answers_received[i] : i \in 1..Len(context.answers_received)}

\* the oldest question of questions_asked with no answer yet
OldestUnanswered(context) == context.questions_asked[Min(Unanswered(context))]

InfoBeforeTurn ==
    IF session = <<>> \/ branch = "new" THEN get_empty_extracted_info
    ELSE session[1].extracted_info

\* corrections_made as the thread held it when the turn began
CorrectionsBeforeTurn ==
    IF session = <<>> \/ branch = "new" THEN <<>>
    ELSE session[1].conversation_context.corrections_made

\* the turn changed field f from a non-empty value to another one
FieldCorrected(f) ==
    /\ Truthy(InfoBeforeTurn[f]) /\ ~is_empty_value(InfoBeforeTurn[f])
    /\ Truthy(state.extracted_info[f]) /\ ~is_empty_value(state.extracted_info[f])
    /\ InfoBeforeTurn[f] # state.extracted_info[f]

CorrectionOf(f) ==
    [field |-> f, old_value |-> InfoBeforeTurn[f],
     new_value |-> state.extracted_info[f]]

\* C32: a turn that changes a field of extracted_info from a non-empty value
\* to a different non-empty value records the correction {field, old, new}
\* in corrections_made; a field whose old or new value is empty, or whose
\* value did not change, gets no correction.
C32_CorrectionDetection ==
    TurnReturned =>
        /\ \A f \in FieldSet :
              FieldCorrected(f) =>
                  InSeq(CorrectionOf(f), state.conversation_context.corrections_made)
        /\ \A i \in 1..Len(state.conversation_context.corrections_made) :
              LET c == state.conversation_context.corrections_made[i]
              IN  InSeq(c, CorrectionsBeforeTurn) \/ FieldCorrected(c.field)


\* C33: a turn after the first on a thread starts from the WorkflowState
\* with which the previous turn ended: the user text is appended to its
\* messages, and its conversation history, conversation context, extraction
\* history and extracted_info are carried over, also when the previous
\* turn ended with neither a pending question nor a SQL text.
C33_ThreadContinuity ==
    [][pc = "idle" /\ pc' = "conversation_manager" /\ session # <<>> =>
          /\ Len(state'.messages) = Len(session[1].messages) + 1
          /\ state'.conversation_history = session[1].conversation_history
          /\ state'.conversation_context = session[1].conversation_context
          /\ state'.extraction_history = session[1].extraction_history
          /\ state'.extracted_info = session[1].extracted_info]_vars


\* the title resolver finds no tier for a title
NoTierMatch(title) ==
    IF has_comma(title) THEN multi_title_conditions(title) = {None}
    ELSE generate_title_sql_condition(title) = None

\* C34: when map_title_node has run on a non-empty title that matches no
\* tier, the state handed to generate_sql_node holds no title SQL fragment;
\* a fragment resolved for an earlier title is not kept for the new title.
C34_NoTierNoFragment ==
    /\ pc = "generate_sql"
    /\ Truthy(state.extracted_info["title"])
    /\ ~is_empty_value(state.extracted_info["title"])
    /\ NoTierMatch(state.extracted_info["title"])
    => state.title_sql_condition = None


\* a step of extract_info_node in update mode in which the capability replied
UpdateExtraction ==
    /\ pc = "extract_info"
    /\ pc' # pc
    /\ state.sql_query # <<>>
    /\ Len(state'.extraction_history) = Len(state.extraction_history) + 1

\* C35: in update mode a field flagged as mentioned whose extracted value
\* is empty (None, the empty text, or a text such as 'none' or
\* 'not specified') is cleared in extracted_info: it does not keep the
\* value it had before.
C35_ExplicitClearOnUpdate ==
    [][UpdateExtraction =>
          \A f \in state'.mentioned_fields :
              is_empty_value(Last(state'.extraction_history)[f])
                  => state'.extracted_info[f] = None]_vars


\* the stages of the graph
Stages ==
    {"conversation_manager", "extract_info", "validate_completeness",
     "request_clarification", "map_industry", "map_title", "generate_sql",
     "validate_sql", "handle_update"}

\* no stage has run twice in this turn, and nothing ran after clarification
StageOrder ==
    /\ \A i, j \in 1..Len(ran) : ran[i] = ran[j] => i = j
    /\ \A i \in 1..Len(ran) : ran[i] \in Stages
    /\ InSeq("request_clarification", ran) =>
          /\ Last(ran) = "request_clarification"
          /\ pc \in {"END", "idle"}

\* C36: in a turn every stage runs at most once, so the turn takes a
\* bounded number of stage steps; the clarification stage, when it runs, is
\* the last one; and the turn goes on to the end of the graph, with or
\* without a pending question: no stage leaves it by an exception.
C36_TurnTermination ==
    /\ StageOrder
    /\ Len(ran) < Cardinality(Stages)
    /\ pc \in Stages \cup {"idle", "END"}


\* the fields the user had explicitly cleared when the previous turn of the
\* thread ended: flagged as mentioned, with no value
ClearedBeforeTurn ==
    IF session = <<>> \/ branch = "new" THEN {}
    ELSE {f \in session[1].mentioned_fields :
              session[1].extracted_info[f] = None}

\* C37: on a thread that has no SQL text yet, a field the user explicitly
\* cleared in an earlier turn is not reported in missing_fields by a later
\* turn, unless that turn's reply mentions the field again.
C37_ClearingPersists ==
    /\ InSeq("validate_completeness", ran)
    /\ branch = "resume"
    /\ session[1].sql_query = <<>>
    => \A f \in ClearedBeforeTurn \ state.mentioned_fields :
           ~InSeq(f, state.missing_fields)


\* C38: at the end of every turn there is a pending question exactly when
\* the turn is suspended: current_question is non-empty if and only if
\* needs_human_input is true, so the question of an earlier turn does not
\* stay pending after a turn that ends without asking one.
C38_PendingQuestionMatchesFlag ==
    TurnReturned => (Truthy(state.current_question) <=> state.needs_human_input)


\* generate_sql_node is about to build "industry IN (...)" for one industry
\* from the codes of sic_context
IndustryClauseGiven ==
    /\ pc = "generate_sql"
    /\ Truthy(state.extracted_info["industry"])
    /\ ~is_empty_value(state.extracted_info["industry"])
    /\ ~has_comma(state.extracted_info["industry"])
    /\ state.sic_context # <<>>
    /\ state.sic_context[1].codes # <<>>

\* C39: whenever SQL synthesis is given an industry IN (...) clause, the
\* codes in it were resolved for the industry text now in extracted_info;
\* codes of an earlier, different industry are not paired with the new
\* text, also when resolving the new text failed.
C39_CodesOfCurrentIndustry ==
    IndustryClauseGiven =>
        lower_strip(state.sic_context[1].industry_input.industry)
            = lower_strip(state.extracted_info["industry"])

====
